---- MODULE Spec2Model ----
(***************************************************************************)
(* ScanMate recognition core: the detection mapper (piece_mapping.py), the *)
(* orientation normaliser (board_orientation.py) and the position encoder  *)
(* (fen_converter.py).                                                     *)
(*                                                                         *)
(* Numbers.  Pixel coordinates are integers; a box anchor is kept in       *)
(* quarter pixels (cx = (x1+x2)/2 and cy = y2-(y2-y1)/4 are then exact),   *)
(* a projected coordinate q/w is kept as an exact fraction [n, d], d > 0.  *)
(* Confidences are kept in tenths (0.4 is 4, the initial -1.0 is -10).     *)
(* A Python string is a sequence of one-character strings, None is "None". *)
(***************************************************************************)
EXTENDS Integers, Sequences, FiniteSets, TLC

VARIABLES
    homography,     \* map_pieces_to_board: the 3x3 matrix H
    items,          \* map_pieces_to_board: the (box, score, cls) items consumed so far
    idx,            \* map_pieces_to_board: number of items the for loop has consumed
    board_matrix,   \* map_pieces_to_board: 8x8 labels
    conf_grid,      \* map_pieces_to_board: 8x8 best confidences
    touched,        \* the squares the last loop iteration assigned to
    map_pc,         \* "loop" | "done"
    board_state,    \* orient_board_state_for_white: the argument
    oriented,       \* orient_board_state_for_white: the returned board
    same_object,    \* whether the returned board is the argument object itself
    orient_pc,      \* "call" | "done"
    fen_board,      \* convert_board_to_fen: the argument
    fen_string,     \* convert_board_to_fen: the returned string
    fen_pc,         \* "call" | "done"
    kps,            \* corner ordering: the 4 keypoints given to a script or function
    caller,         \* corner ordering: which caller resolved the quad ("none" before)
    force,          \* rectify_one: the --force flag
    ordered,        \* corner ordering: what the ordering step returned (a quad or None)
    handed,         \* the quad passed on to cv2.getPerspectiveTransform, None if none was
    upload,         \* run_full_pipeline: whether image_bytes decode to an image
    corners,        \* run_full_pipeline: what get_board_corners returned
    scene,          \* what the photograph shows: where the board lies and its lightness
    src,            \* get_perspective_transform: the ordered corners
    dst,            \* get_perspective_transform: destination corners of the returned matrix
    tests,          \* get_perspective_transform: the _a1_is_dark evaluations made
    pipe_pc,        \* run_full_pipeline: the stage about to run
    response,       \* recognize_board_endpoint: the JSON response (None before)
    written,        \* rectify_one: the output files written
    exit_code,      \* rectify_one: the exit status of the script (-1 while it runs)
    debug_board,    \* board_mapper.map_pieces_to_board: 8x8 labels
    req_pc,         \* recognize_board_endpoint, per request: position of the handler
    req_image,      \* per request: the image the client uploads
    req_bytes,      \* per request: image_bytes, the local of the handler
    last_read,      \* the upload most recently returned by file.read() to any handler
    req_result,     \* per request: the response returned
    engine,         \* server.py: the global engine (0 is None, k > 0 the k-th engine started)
    quits,          \* per engine started: the number of quit() calls it received
    an_pc,          \* analyze_position, per handler: position of the handler
    an_fen,         \* per handler: request.fen
    an_engine,      \* per handler: the value of engine its availability check read (-1 before)
    an_result,      \* per handler: the response
    asked,          \* the engine.analyse calls made
    deref_none      \* whether an attribute of engine was read while engine was None

mapVars == <<homography, items, idx, board_matrix, conf_grid, touched, map_pc>>

orientVars == <<board_state, oriented, same_object, orient_pc>>

fenVars == <<fen_board, fen_string, fen_pc>>

quadVars == <<kps, caller, force, ordered, handed, written, exit_code>>

pipeVars == <<upload, corners, scene, src, dst, tests, pipe_pc, response>>

dbgVars == <<debug_board>>

srvVars == <<req_pc, req_image, req_bytes, last_read, req_result>>

engVars == <<engine, quits, an_pc, an_fen, an_engine, an_result, asked, deref_none>>

vars == <<mapVars, orientVars, fenVars, quadVars, pipeVars, dbgVars, srvVars, engVars>>

----------------------------------------------------------------------------
(* Constants of the program *)

IMAGE_SIZE == 640

CANVAS_LIMIT == 640

NO_CONF == -10

None == "None"

Idx8 == 0 .. 7

PIECE_CLASS_NAMES ==
    [k \in 0 .. 11 |->
        CASE k = 0 -> "black-bishop"
          [] k = 1 -> "black-king"
          [] k = 2 -> "black-knight"
          [] k = 3 -> "black-pawn"
          [] k = 4 -> "black-queen"
          [] k = 5 -> "black-rook"
          [] k = 6 -> "white-bishop"
          [] k = 7 -> "white-king"
          [] k = 8 -> "white-knight"
          [] k = 9 -> "white-pawn"
          [] k = 10 -> "white-queen"
          [] OTHER -> "white-rook"]

Labels == {PIECE_CLASS_NAMES[k] : k \in DOMAIN PIECE_CLASS_NAMES}

\* dict.get(key, None)
ClassLabel(names, cls_id) == IF cls_id \in DOMAIN names THEN names[cls_id] ELSE None

----------------------------------------------------------------------------
(* Bounds and input sets of the mapper *)

MaxDets == 2

\* Boxes (x1, y1, x2, y2) of the 640x640 working image.
Boxes ==
    { <<220, 170, 260, 210>>,   \* anchor (240, 200)
      <<60, 50, 100, 90>>,      \* anchor (80, 80)
      <<380, 360, 420, 400>>,   \* anchor (400, 390)
      <<390, 370, 409, 400>> }  \* anchor (399.5, 392.5)

\* Confidences in tenths: 0.0, 0.4, 0.9.
Confs == {0, 4, 9}

\* Class ids: black-king, white-king, and one outside the vocabulary.
ClassIds == {1, 7, 12}

Detections == [xyxy : Boxes, conf : Confs, cls : ClassIds]

\* Homographies: the board fills [80,400]^2 of the image (an anchor at
\* (80, y) projects to x = 0, one at (400, y) to x = 640); a projective
\* matrix whose w = 400 - y changes with the anchor; a singular matrix whose
\* third row is zero (w = 0 for every anchor).
Homographies ==
    { << <<2, 0, -160>>, <<0, 2, -160>>, <<0, 0, 1>> >>,
      << <<1, 0, 0>>, <<0, 1, 0>>, <<0, -1, 400>> >>,
      << <<1, 0, -80>>, <<0, 1, -80>>, <<0, 0, 0>> >> }

----------------------------------------------------------------------------
(* piece_mapping.py *)

\* A value beyond every canvas coordinate: the magnitude of q / 1e-9 for a
\* non-zero quarter-pixel q is at least 2.5e8.
Saturated == 250000000

Sign(n) == IF n > 0 THEN 1 ELSE IF n < 0 THEN -1 ELSE 0

\* q / w as a fraction with a positive denominator; w = 0 is replaced by 1e-9.
Quotient(q, w) ==
    IF w = 0 THEN [n |-> Sign(q) * Saturated, d |-> 1]
    ELSE IF w > 0 THEN [n |-> q, d |-> w]
    ELSE [n |-> -q, d |-> -w]

\* _apply_H_point on an anchor given in quarter pixels.
ApplyHPoint(H, cx4, cy4) ==
    LET q0 == H[1][1] * cx4 + H[1][2] * cy4 + H[1][3] * 4
        q1 == H[2][1] * cx4 + H[2][2] * cy4 + H[2][3] * 4
        q2 == H[3][1] * cx4 + H[3][2] * cy4 + H[3][3] * 4
    IN  <<Quotient(q0, q2), Quotient(q1, q2)>>

\* The anchor of a box in quarter pixels: cx = 0.5*(x1+x2), cy = y2-(y2-y1)/4.
Anchor4(box) ==
    <<2 * (box[1] + box[3]), 4 * box[4] - (box[4] - box[2])>>

Project(H, box) == ApplyHPoint(H, Anchor4(box)[1], Anchor4(box)[2])

\* S = IMAGE_SIZE / 8 (exact: 640 is a multiple of 8)
SquareSize == IMAGE_SIZE \div 8

\* Faulty variant: the lower bound is exclusive.
InRange_ExclusiveZero(u) == 0 < u.n /\ u.n < CANVAS_LIMIT * u.d

\* 0.0 <= u < 640.0
InRange(u) == 0 <= u.n /\ u.n < CANVAS_LIMIT * u.d

\* Faulty variant: the canvas guard is left out; the clamp alone bounds the index.
InCanvas_NoGuard(p) == TRUE

InCanvas(p) == InRange(p[1]) /\ InRange(p[2])

\* Faulty variant: the index is rounded up instead of down.
FloorSquare_Ceil(u) == -((-u.n) \div (SquareSize * u.d))

\* int(math.floor(u / S))
FloorSquare(u) == u.n \div (SquareSize * u.d)

Max2(a, b) == IF a > b THEN a ELSE b

Min2(a, b) == IF a < b THEN a ELSE b

\* min(max(c, 0), 7)
Clamp(c) == Min2(Max2(c, 0), 7)

\* Faulty variant: an equal confidence replaces the stored one.
Beats_OrEqual(score, best) == score >= best

\* Faulty variant: no comparison, the last detection overwrites.
Beats_Always(score, best) == TRUE

\* score > conf_grid[r][c]
Beats(score, best) == score > best

EmptyBoard == [r \in Idx8 |-> [c \in Idx8 |-> None]]

EmptyConf == [r \in Idx8 |-> [c \in Idx8 |-> NO_CONF]]

\* One iteration of the for loop: the state after the item, and the squares
\* it assigned to.
MapItem(H, st, item) ==
    LET p == Project(H, item.xyxy)
        c == Clamp(FloorSquare(p[1]))
        r == Clamp(FloorSquare(p[2]))
        label == ClassLabel(PIECE_CLASS_NAMES, item.cls)
    IN  IF ~InCanvas(p) THEN [board |-> st.board, conf |-> st.conf, wrote |-> {}]
        ELSE IF label # None /\ Beats(item.conf, st.conf[r][c])
        THEN [board |-> [st.board EXCEPT ![r][c] = label],
              conf |-> [st.conf EXCEPT ![r][c] = item.conf],
              wrote |-> {<<r, c>>}]
        ELSE [board |-> st.board, conf |-> st.conf, wrote |-> {}]

\* The variables of a function that is not running.
MapIdle ==
    /\ homography = << <<1, 0, 0>>, <<0, 1, 0>>, <<0, 0, 1>> >>
    /\ items = <<>>
    /\ idx = 0
    /\ board_matrix = EmptyBoard
    /\ conf_grid = EmptyConf
    /\ touched = {}
    /\ map_pc = "idle"

OrientIdle ==
    /\ board_state = EmptyBoard
    /\ oriented = EmptyBoard
    /\ same_object = FALSE
    /\ orient_pc = "idle"

FenIdle ==
    /\ fen_board = EmptyBoard
    /\ fen_string = <<>>
    /\ fen_pc = "idle"

QuadIdle ==
    /\ kps = <<>>
    /\ caller = "idle"
    /\ force = FALSE
    /\ ordered = <<>>
    /\ handed = <<>>
    /\ written = {}
    /\ exit_code = -1

PipeIdle ==
    /\ upload = None
    /\ corners = <<>>
    /\ scene = None
    /\ src = <<>>
    /\ dst = <<>>
    /\ tests = <<>>
    /\ pipe_pc = "idle"
    /\ response = None

DbgIdle == debug_board = <<>>

SrvIdle ==
    /\ req_pc = <<>>
    /\ req_image = <<>>
    /\ req_bytes = <<>>
    /\ last_read = None
    /\ req_result = <<>>

EngIdle ==
    /\ engine = 0
    /\ quits = <<>>
    /\ an_pc = <<>>
    /\ an_fen = <<>>
    /\ an_engine = <<>>
    /\ an_result = <<>>
    /\ asked = {}
    /\ deref_none = FALSE

RECURSIVE MapFold(_, _, _)
\* The for loop run over seq from state st.
MapFold(H, st, seq) ==
    IF seq = <<>> THEN st ELSE MapFold(H, MapItem(H, st, Head(seq)), Tail(seq))

\* map_pieces_to_board as a function of its arguments: (board_matrix, conf_grid)
\* when the loop has consumed piece_boxes.
MapPiecesToBoard(piece_boxes, H) ==
    MapFold(H, [board |-> EmptyBoard, conf |-> EmptyConf, wrote |-> {}], piece_boxes)

\* The list piece_boxes is any list of at most MaxDets detections: the loop
\* meets its next item, or its end, when it gets there.
MapInit ==
    /\ homography \in Homographies
    /\ items = <<>>
    /\ idx = 0
    /\ board_matrix = EmptyBoard
    /\ conf_grid = EmptyConf
    /\ touched = {}
    /\ map_pc = "loop"
    /\ OrientIdle
    /\ FenIdle
    /\ QuadIdle
    /\ PipeIdle
    /\ DbgIdle
    /\ SrvIdle
    /\ EngIdle

MapLoop ==
    /\ map_pc = "loop"
    /\ idx < MaxDets
    /\ \E item \in Detections :
        LET res == MapItem(homography, [board |-> board_matrix, conf |-> conf_grid], item)
        IN  /\ items' = Append(items, item)
            /\ board_matrix' = res.board
            /\ conf_grid' = res.conf
            /\ touched' = res.wrote
    /\ idx' = idx + 1
    /\ UNCHANGED <<homography, map_pc>>
    /\ UNCHANGED <<orientVars, fenVars, quadVars, pipeVars>>
    /\ UNCHANGED <<dbgVars, srvVars, engVars>>

MapReturn ==
    /\ map_pc = "loop"
    /\ map_pc' = "done"
    /\ touched' = {}
    /\ UNCHANGED <<homography, items, idx, board_matrix, conf_grid>>
    /\ UNCHANGED <<orientVars, fenVars, quadVars, pipeVars>>
    /\ UNCHANGED <<dbgVars, srvVars, engVars>>

MapNext == MapLoop \/ MapReturn

SpecMap == MapInit /\ [][MapNext]_vars

----------------------------------------------------------------------------
(* Bounds and input sets of the orientation normaliser *)

MaxOrientPieces == 3

\* The squares and labels the input boards are built from: every row, two
\* columns; one white label and two black ones.
OrientSquares == Idx8 \X {0, 3}

OrientLabels == {"white-king", "black-king", "black-pawn"}

\* The board holding the labels of a placement (a function from some squares
\* to labels) and None elsewhere.
BoardOf(pl) ==
    [r \in Idx8 |-> [c \in Idx8 |-> IF <<r, c>> \in DOMAIN pl THEN pl[<<r, c>>] ELSE None]]

Placements(squares, labels, n) ==
    UNION {[S -> labels] : S \in {T \in SUBSET squares : Cardinality(T) <= n}}

----------------------------------------------------------------------------
(* board_orientation.py: rotate_board_state_180, orient_board_state_for_white *)

\* reversed() of an 8-element list
Reversed(list) == [i \in Idx8 |-> list[7 - i]]

\* Faulty variant: the rows are reversed in place but their order is kept.
Rotate180_ColumnsOnly(b) == [r \in Idx8 |-> Reversed(b[r])]

\* [list(reversed(row)) for row in reversed(board_state)]
Rotate180(b) == [r \in Idx8 |-> Reversed(Reversed(b)[r])]

\* cell.startswith('white') on the labels a board can hold
StartsWithWhite(cell) ==
    cell \in {"white-bishop", "white-king", "white-knight", "white-pawn",
              "white-queen", "white-rook"}

\* cell.startswith('black')
StartsWithBlack(cell) ==
    cell \in {"black-bishop", "black-king", "black-knight", "black-pawn",
              "black-queen", "black-rook"}

\* How many times the scan of row r appends r to white_rows / black_rows.
WhiteInRow(b) ==
    [r \in Idx8 |-> Cardinality({c \in Idx8 : b[r][c] # None /\ StartsWithWhite(b[r][c])})]

BlackInRow(b) ==
    [r \in Idx8 |->
        Cardinality({c \in Idx8 : b[r][c] # None /\ ~StartsWithWhite(b[r][c])
                                    /\ StartsWithBlack(b[r][c])})]

RECURSIVE LenRows(_, _)
\* len(rows) of the list collected over rows 0..r, perRow[r] entries per row
LenRows(perRow, r) == IF r < 0 THEN 0 ELSE LenRows(perRow, r - 1) + perRow[r]

RECURSIVE SumRows(_, _)
\* sum(rows) of that list
SumRows(perRow, r) == IF r < 0 THEN 0 ELSE SumRows(perRow, r - 1) + r * perRow[r]

\* Faulty variant: equal averages also rotate.
AvgLess_OrEqual(sumW, lenW, sumB, lenB) == sumW * lenB <= sumB * lenW

\* white_avg < black_avg, both lists non-empty: sum/len compared exactly
AvgLess(sumW, lenW, sumB, lenB) == sumW * lenB < sumB * lenW

\* orient_board_state_for_white: the returned board and whether it is the
\* argument object (return board_state) or a fresh list of lists.
OrientForWhite(b) ==
    LET white_rows == WhiteInRow(b)
        black_rows == BlackInRow(b)
        lenW == LenRows(white_rows, 7)
        lenB == LenRows(black_rows, 7)
    IN  IF lenW = 0 \/ lenB = 0 THEN [board |-> b, same |-> TRUE]
        ELSE IF AvgLess(SumRows(white_rows, 7), lenW, SumRows(black_rows, 7), lenB)
        THEN [board |-> Rotate180(b), same |-> FALSE]
        ELSE [board |-> b, same |-> TRUE]

OrientInit ==
    /\ \E pl \in Placements(OrientSquares, OrientLabels, MaxOrientPieces) :
        board_state = BoardOf(pl)
    /\ oriented = EmptyBoard
    /\ same_object = FALSE
    /\ orient_pc = "call"
    /\ MapIdle
    /\ FenIdle
    /\ QuadIdle
    /\ PipeIdle
    /\ DbgIdle
    /\ SrvIdle
    /\ EngIdle

OrientCall ==
    /\ orient_pc = "call"
    /\ oriented' = OrientForWhite(board_state).board
    /\ same_object' = OrientForWhite(board_state).same
    /\ orient_pc' = "done"
    /\ UNCHANGED <<board_state, mapVars, fenVars, quadVars, pipeVars>>
    /\ UNCHANGED <<dbgVars, srvVars, engVars>>

OrientNext == OrientCall

SpecOrient == OrientInit /\ [][OrientNext]_vars

----------------------------------------------------------------------------
(* Bounds and input sets of the position encoder *)

MaxFenPieces == 2

\* The squares the input boards are filled on (first and last rank: first,
\* second and last file; plus one square of a middle rank and the e-file
\* square of the last rank) and what a filled cell holds: one of the 12
\* labels or the string 'empty'.  Every other cell is None.
FenSquares == ({0, 7} \X {0, 1, 7}) \cup {<<3, 1>>, <<7, 4>>}

FenCells == Labels \cup {"empty"}

----------------------------------------------------------------------------
(* fen_converter.py *)

PIECE_TO_FEN_MAP ==
    [l \in Labels \cup {"empty"} |->
        CASE l = "white-king" -> "K"
          [] l = "white-queen" -> "Q"
          [] l = "white-rook" -> "R"
          [] l = "white-bishop" -> "B"
          [] l = "white-knight" -> "N"
          [] l = "white-pawn" -> "P"
          [] l = "black-king" -> "k"
          [] l = "black-queen" -> "q"
          [] l = "black-rook" -> "r"
          [] l = "black-bishop" -> "b"
          [] l = "black-knight" -> "n"
          [] l = "black-pawn" -> "p"
          [] OTHER -> "1"]

\* Faulty variant: both kings are written with the black king's letter.
FenChar_KingsAlike(square) ==
    IF square \in {"white-king", "black-king"} THEN "k"
    ELSE IF square \in DOMAIN PIECE_TO_FEN_MAP THEN PIECE_TO_FEN_MAP[square] ELSE "1"

\* PIECE_TO_FEN_MAP.get(square, '1')
FenChar(square) ==
    IF square \in DOMAIN PIECE_TO_FEN_MAP THEN PIECE_TO_FEN_MAP[square] ELSE "1"

DecimalDigits == <<"0", "1", "2", "3", "4", "5", "6", "7", "8", "9">>

RECURSIVE Str(_)
\* str(n) for n >= 0
Str(n) ==
    IF n < 10 THEN <<DecimalDigits[n + 1]>>
    ELSE Str(n \div 10) \o <<DecimalDigits[(n % 10) + 1]>>

\* Faulty variant: the run length is not reset once it has been written.
FenSquare_NoReset(st, square) ==
    LET fen_char == FenChar(square)
    IN  IF fen_char = "1"
        THEN [fen_row |-> st.fen_row, empty_count |-> st.empty_count + 1]
        ELSE IF st.empty_count > 0
        THEN [fen_row |-> st.fen_row \o Str(st.empty_count) \o <<fen_char>>,
              empty_count |-> st.empty_count]
        ELSE [fen_row |-> st.fen_row \o <<fen_char>>, empty_count |-> st.empty_count]

\* The body of the inner loop: (fen_row, empty_count) after one square.
FenSquare(st, square) ==
    LET fen_char == FenChar(square)
    IN  IF fen_char = "1"
        THEN [fen_row |-> st.fen_row, empty_count |-> st.empty_count + 1]
        ELSE IF st.empty_count > 0
        THEN [fen_row |-> st.fen_row \o Str(st.empty_count) \o <<fen_char>>,
              empty_count |-> 0]
        ELSE [fen_row |-> st.fen_row \o <<fen_char>>, empty_count |-> st.empty_count]

RECURSIVE FenScan(_, _)
\* The inner loop over the squares row[0..c].
FenScan(row, c) ==
    IF c < 0 THEN [fen_row |-> <<>>, empty_count |-> 0]
    ELSE FenSquare(FenScan(row, c - 1), row[c])

\* Faulty variant: a run of empty squares that ends the row is not written.
FenFlush_Dropped(st) == st.fen_row

\* if empty_count > 0: fen_row += str(empty_count)
FenFlush(st) ==
    IF st.empty_count > 0 THEN st.fen_row \o Str(st.empty_count) ELSE st.fen_row

\* The fen_row appended to fen_rows for one row of the board.
FenRow(row) == FenFlush(FenScan(row, 7))

RECURSIVE Join(_, _, _)
\* sep.join(rows[0..n])
Join(sep, rows, n) ==
    IF n < 0 THEN <<>>
    ELSE IF n = 0 THEN rows[0]
    ELSE Join(sep, rows, n - 1) \o sep \o rows[n]

\* Faulty variant: a board with two kings of one colour is refused, None
\* is returned.
ConvertBoardToFen_OneKingEach(b) ==
    IF \E k \in {"white-king", "black-king"} :
          Cardinality({sq \in Idx8 \X Idx8 : b[sq[1]][sq[2]] = k}) > 1
    THEN None
    ELSE Join(<<"/">>, [r \in Idx8 |-> FenRow(b[r])], 7)

\* convert_board_to_fen
ConvertBoardToFen(b) == Join(<<"/">>, [r \in Idx8 |-> FenRow(b[r])], 7)

FenInit ==
    /\ \E pl \in Placements(FenSquares, FenCells, MaxFenPieces) :
        fen_board = BoardOf(pl)
    /\ fen_string = <<>>
    /\ fen_pc = "call"
    /\ MapIdle
    /\ OrientIdle
    /\ QuadIdle
    /\ PipeIdle
    /\ DbgIdle
    /\ SrvIdle
    /\ EngIdle

FenCall ==
    /\ fen_pc = "call"
    /\ fen_string' = ConvertBoardToFen(fen_board)
    /\ fen_pc' = "done"
    /\ UNCHANGED <<fen_board, mapVars, orientVars, quadVars, pipeVars>>
    /\ UNCHANGED <<dbgVars, srvVars, engVars>>

FenNext == FenCall

SpecFen == FenInit /\ [][FenNext]_vars

----------------------------------------------------------------------------
(* Detection mapper: what the properties below read off a run.  These are  *)
(* written from the geometry (projected anchor, canvas side, vocabulary),  *)
(* not from the mapper's own guard, index and comparison operators.        *)

ProjX(k) == Project(homography, items[k].xyxy)[1]

ProjY(k) == Project(homography, items[k].xyxy)[2]

\* 0 <= u < canvas side
Inside(u) == u.n >= 0 /\ u.n < IMAGE_SIZE * u.d

\* u = v for an integer v
At(u, v) == u.n = v * u.d

\* floor(u / (side/8)) for a coordinate inside the canvas
CellOf(u) ==
    CHOOSE k \in Idx8 : 8 * u.n >= IMAGE_SIZE * u.d * k /\ 8 * u.n < IMAGE_SIZE * u.d * (k + 1)

KnownClass(k) == items[k].cls \in 0 .. 11

\* d is a known-class detection whose anchor projects inside the canvas.
HitDet(d) ==
    /\ d.cls \in 0 .. 11
    /\ Inside(Project(homography, d.xyxy)[1])
    /\ Inside(Project(homography, d.xyxy)[2])

Hit(k) == HitDet(items[k])

HitSquare(k) == <<CellOf(ProjY(k)), CellOf(ProjX(k))>>

\* The hits among the first n items that share item k's square.
Rivals(n, k) == {j \in 1 .. n : Hit(j) /\ HitSquare(j) = HitSquare(k)}

TopConf(S) == CHOOSE m \in {items[j].conf : j \in S} : \A j \in S : items[j].conf <= m

\* The earliest item of S among those with the highest confidence.
Winner(S) ==
    CHOOSE j \in S : /\ items[j].conf = TopConf(S)
                     /\ \A i \in S : items[i].conf = TopConf(S) => j <= i

LabelAt(sq) == board_matrix[sq[1]][sq[2]]

ConfAt(sq) == conf_grid[sq[1]][sq[2]]

\* C1: when several known-class detections project into one square, the
\* returned board holds there the label of the highest-confidence one, and
\* among those tied for the highest confidence the earliest in the list.
C1_HighestEarliestWins ==
    map_pc = "done" =>
        \A k \in 1 .. Len(items) :
            Hit(k) =>
                LabelAt(HitSquare(k)) =
                    PIECE_CLASS_NAMES[items[Winner(Rivals(Len(items), k))].cls]

\* C1 witness: a finished run in which two detections of different labels
\* tie for the highest confidence on one square and the earlier one's label
\* is on the board.
C1_Witness ==
    /\ map_pc = "done"
    /\ \E j, k \in 1 .. Len(items) :
        /\ j < k /\ Hit(j) /\ Hit(k) /\ HitSquare(j) = HitSquare(k)
        /\ items[j].conf = items[k].conf
        /\ items[j].cls # items[k].cls
        /\ items[j].conf = TopConf(Rivals(Len(items), k))
        /\ Winner(Rivals(Len(items), k)) = j
        /\ LabelAt(HitSquare(k)) = PIECE_CLASS_NAMES[items[j].cls]

\* C2: after any prefix of the list, every square holds one label or none,
\* and a square that received a known-class in-canvas detection stores the
\* maximum confidence of those detections and the label of one of them
\* having that confidence.
C2_ConfIsMaxOfPrefix ==
    /\ board_matrix \in [Idx8 -> [Idx8 -> Labels \cup {None}]]
    /\ \A k \in 1 .. idx :
        Hit(k) =>
            LET rivals == Rivals(idx, k)
                sq == HitSquare(k)
            IN  /\ ConfAt(sq) = TopConf(rivals)
                /\ \E j \in rivals :
                    /\ items[j].conf = ConfAt(sq)
                    /\ PIECE_CLASS_NAMES[items[j].cls] = LabelAt(sq)

\* C2 witness: mid-loop, a square has received a higher and then a lower
\* confidence and stores the higher one.
C2_Witness ==
    /\ map_pc = "loop" /\ idx = 2
    /\ Hit(1) /\ Hit(2) /\ HitSquare(1) = HitSquare(2)
    /\ items[1].conf > items[2].conf
    /\ ConfAt(HitSquare(1)) = items[1].conf

\* The list with items j and j+1 exchanged.
SwapAdjacent(seq, j) ==
    [i \in 1 .. Len(seq) |-> IF i = j THEN seq[j + 1] ELSE IF i = j + 1 THEN seq[j] ELSE seq[i]]

\* C3: two known-class detections of different confidences on one square
\* give the same board whichever of the two is processed first, and when
\* they are the square's only detections it holds the label of the higher.
C3_OrderIndependent ==
    map_pc = "done" =>
        \A j \in 1 .. Len(items) - 1 :
            (/\ Hit(j) /\ Hit(j + 1) /\ HitSquare(j) = HitSquare(j + 1)
             /\ items[j].conf # items[j + 1].conf) =>
                /\ MapPiecesToBoard(SwapAdjacent(items, j), homography).board = board_matrix
                /\ Rivals(Len(items), j) = {j, j + 1} =>
                    LabelAt(HitSquare(j)) =
                        PIECE_CLASS_NAMES[items[IF items[j].conf > items[j + 1].conf
                                                THEN j ELSE j + 1].cls]

\* C3 witness: a finished run of a 0.4 detection followed by a 0.9 detection
\* of another label on the same square, which holds the 0.9 label.
C3_Witness ==
    /\ map_pc = "done" /\ Len(items) = 2
    /\ Hit(1) /\ Hit(2) /\ HitSquare(1) = HitSquare(2)
    /\ items[1].conf = 4 /\ items[2].conf = 9
    /\ items[1].cls # items[2].cls
    /\ LabelAt(HitSquare(1)) = PIECE_CLASS_NAMES[items[2].cls]

\* 0 <= u <= canvas side
InsideOrOnEdge(u) == u.n >= 0 /\ u.n <= IMAGE_SIZE * u.d

\* Item k has a known class and its anchor projects onto the boundary of
\* the canvas: x or y is 0 or the side length, the other is within [0, side].
OnBoundary(k) ==
    /\ KnownClass(k)
    /\ InsideOrOnEdge(ProjX(k)) /\ InsideOrOnEdge(ProjY(k))
    /\ \/ At(ProjX(k), 0) \/ At(ProjX(k), IMAGE_SIZE)
       \/ At(ProjY(k), 0) \/ At(ProjY(k), IMAGE_SIZE)

\* The clamped edge index: 7 on the far edge.
EdgeCell(u) == IF At(u, IMAGE_SIZE) THEN 7 ELSE CellOf(u)

\* C4 as stated: a known-class detection whose anchor projects exactly onto
\* the canvas boundary (0 or the side length) is assigned to the clamped
\* edge square and is not dropped.
C4_BoundaryKept ==
    \A k \in 1 .. idx :
        OnBoundary(k) =>
            LET sq == <<EdgeCell(ProjY(k)), EdgeCell(ProjX(k))>>
            IN  LabelAt(sq) # None /\ ConfAt(sq) >= items[k].conf

\* Item k projects onto the far edge: x or y equals the side length.
OnFarEdge(k) == At(ProjX(k), IMAGE_SIZE) \/ At(ProjY(k), IMAGE_SIZE)

\* C4 amended: a known-class detection whose anchor projects with x or y
\* equal to 0 (and the other coordinate inside the canvas) is assigned to
\* the edge square of index 0 on that axis and is not dropped; a detection
\* whose projected x or y equals the side length is out of canvas and is
\* dropped.
C4_NearEdgeKeptFarEdgeDropped ==
    /\ \A k \in 1 .. idx :
        (Hit(k) /\ (At(ProjX(k), 0) \/ At(ProjY(k), 0))) =>
            /\ At(ProjX(k), 0) => HitSquare(k)[2] = 0
            /\ At(ProjY(k), 0) => HitSquare(k)[1] = 0
            /\ LabelAt(HitSquare(k)) # None
            /\ ConfAt(HitSquare(k)) >= items[k].conf
    /\ (idx >= 1 /\ map_pc = "loop" /\ OnFarEdge(idx)) => touched = {}

\* C4 witness: a detection on the far edge (x = 640) was dropped, then a
\* detection projecting to (0, 0) was assigned to square (0, 0).
C4_Witness ==
    /\ map_pc = "loop" /\ idx = 2
    /\ OnBoundary(1) /\ OnFarEdge(1)
    /\ Hit(2) /\ At(ProjX(2), 0) /\ At(ProjY(2), 0)
    /\ touched = {<<0, 0>>}
    /\ \A r, c \in Idx8 : (board_matrix[r][c] # None) = (r = 0 /\ c = 0)

\* The items of seq that are known-class in-canvas detections.
HitsOnly(seq) == SelectSeq(seq, HitDet)

\* C5: a detection that projects outside the canvas or has a class id
\* outside the vocabulary changes no label and no stored confidence: after
\* any prefix the board and the confidences are those computed from the
\* prefix with such detections removed, and the iteration that consumed
\* one assigned nothing.
C5_AnomaliesChangeNothing ==
    /\ LET clean == MapPiecesToBoard(HitsOnly(SubSeq(items, 1, idx)), homography)
       IN  board_matrix = clean.board /\ conf_grid = clean.conf
    /\ (idx >= 1 /\ map_pc = "loop" /\ ~Hit(idx)) => touched = {}

\* C5 witness: a finished run over an out-of-canvas known-class detection
\* and an unknown-class in-canvas detection, or one of them and a hit.
C5_Witness ==
    /\ map_pc = "done" /\ Len(items) = 2
    /\ KnownClass(1) /\ ~Hit(1)
    /\ \/ Hit(2) /\ LabelAt(HitSquare(2)) = PIECE_CLASS_NAMES[items[2].cls]
       \/ ~KnownClass(2) /\ Inside(ProjX(2)) /\ Inside(ProjY(2)) /\ board_matrix = EmptyBoard

\* Item k is a hit whose confidence exceeds every earlier hit on its square.
Prevails(k) ==
    /\ Hit(k)
    /\ Rivals(k - 1, k) # {} => items[k].conf > TopConf(Rivals(k - 1, k))

\* C6: an iteration of the loop assigns to at most one square, with row and
\* column in 0..7; the square is (floor(y/(S/8)), floor(x/(S/8))) of the
\* projected anchor; a detection that is kept is written there; no other
\* square changes.
C6_InvOneSquareInGrid ==
    /\ touched \subseteq (Idx8 \X Idx8)
    /\ Cardinality(touched) <= 1
    /\ (idx >= 1 /\ map_pc = "loop") =>
        /\ touched # {} => (Hit(idx) /\ touched = {HitSquare(idx)})
        /\ Prevails(idx) =>
            /\ touched = {HitSquare(idx)}
            /\ LabelAt(HitSquare(idx)) = PIECE_CLASS_NAMES[items[idx].cls]
            /\ ConfAt(HitSquare(idx)) = items[idx].conf

C6_StepOneSquare ==
    MapLoop =>
        \A r, c \in Idx8 :
            (board_matrix'[r][c] # board_matrix[r][c] \/ conf_grid'[r][c] # conf_grid[r][c])
                => <<r, c>> \in touched'

C6_OneSquareInGrid == [](C6_InvOneSquareInGrid) /\ [][C6_StepOneSquare]_vars

\* C6 witness: the loop has just written a detection to square (7, 7).
C6_Witness ==
    /\ map_pc = "loop" /\ idx >= 1
    /\ Prevails(idx)
    /\ touched = {<<7, 7>>}
    /\ board_matrix[7][7] = PIECE_CLASS_NAMES[items[idx].cls]

----------------------------------------------------------------------------
(* Orientation normaliser: the colour of a label is read from the class    *)
(* table (ids 0..5 black, 6..11 white), the mean row from the squares.     *)

WhiteLabels == {PIECE_CLASS_NAMES[k] : k \in 6 .. 11}

BlackLabels == {PIECE_CLASS_NAMES[k] : k \in 0 .. 5}

SquaresHolding(b, labels) == {sq \in Idx8 \X Idx8 : b[sq[1]][sq[2]] \in labels}

RowsOf(S) == {sq[1] : sq \in S}

RECURSIVE RowTotal(_)
RowTotal(S) ==
    IF S = {} THEN 0
    ELSE LET sq == CHOOSE x \in S : TRUE IN sq[1] + RowTotal(S \ {sq})

\* mean row of W < mean row of B, for non-empty W and B
MeanRowLess(W, B) == RowTotal(W) * Cardinality(B) < RowTotal(B) * Cardinality(W)

\* C7: the normaliser returns the input's content when there is no white
\* piece, or no black piece, or the white mean row is not below the black
\* mean row; otherwise it returns the 180-degree rotation,
\* output[r][c] = input[7-r][7-c].
C7_OrientContract ==
    orient_pc = "done" =>
        LET W == SquaresHolding(board_state, WhiteLabels)
            B == SquaresHolding(board_state, BlackLabels)
        IN  IF W = {} \/ B = {} \/ ~MeanRowLess(W, B)
            THEN oriented = board_state
            ELSE \A r, c \in Idx8 : oriented[r][c] = board_state[7 - r][7 - c]

\* C7 witness: a board whose white mean row is below its black mean row has
\* been rotated: the piece of input square (0, 0) is on square (7, 7).
C7_Witness ==
    /\ orient_pc = "done"
    /\ MeanRowLess(SquaresHolding(board_state, WhiteLabels),
                   SquaresHolding(board_state, BlackLabels))
    /\ SquaresHolding(board_state, WhiteLabels) # {}
    /\ SquaresHolding(board_state, BlackLabels) # {}
    /\ board_state[0][0] # None
    /\ oriented[7][7] = board_state[0][0]
    /\ oriented # board_state

\* C8: for a board with a white and a black piece, the returned board's
\* white mean row is not below its black mean row; white in rows 0-1 with
\* black in rows 6-7 comes back with white in rows 6-7; white in rows 6-7
\* with black in rows 0-1 comes back unchanged.
C8_WhiteNotAboveBlack ==
    orient_pc = "done" =>
        LET W == SquaresHolding(board_state, WhiteLabels)
            B == SquaresHolding(board_state, BlackLabels)
            Wout == SquaresHolding(oriented, WhiteLabels)
            Bout == SquaresHolding(oriented, BlackLabels)
        IN  (W # {} /\ B # {}) =>
                /\ Wout # {} /\ Bout # {}
                /\ ~MeanRowLess(Wout, Bout)
                /\ (RowsOf(W) \subseteq {0, 1} /\ RowsOf(B) \subseteq {6, 7}) =>
                        (RowsOf(Wout) \subseteq {6, 7} /\ RowsOf(Bout) \subseteq {0, 1})
                /\ (RowsOf(W) \subseteq {6, 7} /\ RowsOf(B) \subseteq {0, 1}) =>
                        oriented = board_state

\* C8 witness: white pieces in rows 0 and 1 and a black piece in rows 6-7
\* came back with the white pieces in rows 6 and 7.
C8_Witness ==
    /\ orient_pc = "done"
    /\ RowsOf(SquaresHolding(board_state, WhiteLabels)) = {0, 1}
    /\ SquaresHolding(board_state, BlackLabels) # {}
    /\ RowsOf(SquaresHolding(board_state, BlackLabels)) \subseteq {6, 7}
    /\ RowsOf(SquaresHolding(oriented, WhiteLabels)) = {6, 7}

----------------------------------------------------------------------------
(* Position encoder: a reference encoder that walks a rank run by run, and *)
(* the reading of a returned string as fields of digits and letters.       *)

\* The letter of a label: the kind's initial (N for knight), uppercase for
\* white and lowercase for black; class ids 0..5 are black bishop, king,
\* knight, pawn, queen, rook and 6..11 the white ones.
RefLetter(label) ==
    LET k == CHOOSE i \in 0 .. 11 : PIECE_CLASS_NAMES[i] = label
    IN  IF k >= 6 THEN <<"B", "K", "N", "P", "Q", "R">>[k - 5]
        ELSE <<"b", "k", "n", "p", "q", "r">>[k + 1]

Occupied(cell) == cell \in Labels

\* The length of the maximal run of empty squares that starts at column c.
RunFrom(row, c) ==
    CHOOSE n \in 1 .. 8 - c :
        /\ \A i \in c .. c + n - 1 : ~Occupied(row[i])
        /\ c + n = 8 \/ Occupied(row[c + n])

RECURSIVE RefRank(_, _)
\* The encoding of row[c..7].
RefRank(row, c) ==
    IF c > 7 THEN <<>>
    ELSE IF Occupied(row[c]) THEN <<RefLetter(row[c])>> \o RefRank(row, c + 1)
    ELSE <<DecimalDigits[RunFrom(row, c) + 1]>> \o RefRank(row, c + RunFrom(row, c))

RefFen(b) ==
    RefRank(b[0], 0) \o <<"/">> \o RefRank(b[1], 0) \o <<"/">> \o RefRank(b[2], 0) \o <<"/">>
    \o RefRank(b[3], 0) \o <<"/">> \o RefRank(b[4], 0) \o <<"/">> \o RefRank(b[5], 0)
    \o <<"/">> \o RefRank(b[6], 0) \o <<"/">> \o RefRank(b[7], 0)

\* C9: the encoder's output equals that of the reference rank-by-rank
\* encoder: ranks are rows 0..7 in order, joined with '/'; per rank, from
\* left to right, one letter per occupied square and one digit per maximal
\* run of empty squares, a run that ends the row included.
C9_MatchesReference ==
    fen_pc = "done" => fen_string = RefFen(fen_board)

\* C9 witness: a rank with one empty square, a piece, a run of five and a
\* piece in the last file has been encoded as digit, letter, digit, letter.
C9_Witness ==
    /\ fen_pc = "done"
    /\ \E r \in Idx8 :
        /\ Occupied(fen_board[r][1]) /\ Occupied(fen_board[r][7])
        /\ \A c \in Idx8 \ {1, 7} : ~Occupied(fen_board[r][c])
        /\ FenRow(fen_board[r]) =
            <<"1", RefLetter(fen_board[r][1]), "5", RefLetter(fen_board[r][7])>>
    /\ fen_string # <<>>

\* The number of '/' characters of a string.
SlashCount(str) == Cardinality({i \in 1 .. Len(str) : str[i] = "/"})

RECURSIVE Fields(_)
\* The fields of a string split at '/'.
Fields(str) ==
    IF \A i \in 1 .. Len(str) : str[i] # "/" THEN <<str>>
    ELSE LET cut == CHOOSE i \in 1 .. Len(str) :
                        str[i] = "/" /\ \A j \in 1 .. i - 1 : str[j] # "/"
         IN  <<SubSeq(str, 1, cut - 1)>> \o Fields(SubSeq(str, cut + 1, Len(str)))

\* What a character of a field stands for: a digit its value, a letter one square.
SquaresOfChar(ch) ==
    IF \E v \in 0 .. 9 : DecimalDigits[v + 1] = ch
    THEN CHOOSE v \in 0 .. 9 : DecimalDigits[v + 1] = ch
    ELSE 1

RECURSIVE FieldWidth(_)
FieldWidth(field) ==
    IF field = <<>> THEN 0 ELSE SquaresOfChar(Head(field)) + FieldWidth(Tail(field))

\* C10: the returned string has exactly 8 rank fields separated by exactly
\* 7 '/' characters, and in every field the digit values plus the number
\* of letters sum to 8.
C10_EightFieldsOfEight ==
    fen_pc = "done" =>
        /\ SlashCount(fen_string) = 7
        /\ Len(Fields(fen_string)) = 8
        /\ \A f \in 1 .. Len(Fields(fen_string)) : FieldWidth(Fields(fen_string)[f]) = 8

\* C10 witness: a board with a piece in the middle of a rank and a rank
\* ending in a run of empty squares has been encoded.
C10_Witness ==
    /\ fen_pc = "done"
    /\ Occupied(fen_board[7][1]) /\ ~Occupied(fen_board[7][0]) /\ ~Occupied(fen_board[7][7])
    /\ Occupied(fen_board[0][0])
    /\ Len(Fields(fen_string)) = 8
    /\ Len(Fields(fen_string)[8]) = 3
    /\ FieldWidth(Fields(fen_string)[8]) = 8

\* The cells of row r that hold a piece.
PieceCols(b, r) == {c \in Idx8 : Occupied(b[r][c])}

\* Digit c unless c = 0, the letter, digit 7-c unless c = 7.
LonePieceField(c, letter) ==
    (IF c = 0 THEN <<>> ELSE <<DecimalDigits[c + 1]>>)
    \o <<letter>>
    \o (IF c = 7 THEN <<>> ELSE <<DecimalDigits[(7 - c) + 1]>>)

LoneWhiteKingE1(b) ==
    /\ b[7][4] = "white-king"
    /\ \A r \in Idx8 : PieceCols(b, r) = IF r = 7 THEN {4} ELSE {}

\* C11: a rank without a piece is encoded as "8" and a rank whose only
\* piece stands at column c as digit c (omitted when c = 0), the piece
\* letter, digit 7-c (omitted when c = 7); the board whose only piece is a
\* white king at row 7, column 4 is encoded as "8/8/8/8/8/8/8/4K3".
C11_LonePieceRanks ==
    fen_pc = "done" =>
        /\ Len(Fields(fen_string)) = 8
        /\ \A r \in Idx8 :
            /\ PieceCols(fen_board, r) = {} => Fields(fen_string)[r + 1] = <<"8">>
            /\ \A c \in Idx8 :
                PieceCols(fen_board, r) = {c} =>
                    Fields(fen_string)[r + 1] = LonePieceField(c, RefLetter(fen_board[r][c]))
        /\ LoneWhiteKingE1(fen_board) =>
            fen_string = <<"8", "/", "8", "/", "8", "/", "8", "/", "8", "/", "8", "/",
                           "8", "/", "4", "K", "3">>

\* C11 witness: the board whose only piece is the white king at row 7,
\* column 4 has been encoded, its last rank as "4K3".
C11_Witness ==
    /\ fen_pc = "done"
    /\ LoneWhiteKingE1(fen_board)
    /\ Len(Fields(fen_string)) = 8
    /\ Fields(fen_string)[8] = <<"4", "K", "3">>
    /\ Fields(fen_string)[1] = <<"8">>

RECURSIVE SquaresOfField(_)
\* A field read back square by square: a letter is itself, a digit that
\* many empty squares.
SquaresOfField(field) ==
    IF field = <<>> THEN <<>>
    ELSE (IF \E v \in 0 .. 9 : DecimalDigits[v + 1] = Head(field)
          THEN [i \in 1 .. SquaresOfChar(Head(field)) |-> "."]
          ELSE <<Head(field)>>)
         \o SquaresOfField(Tail(field))

\* What row r of a board shows square by square.
SquaresOfRow(b, r) ==
    [i \in 1 .. 8 |-> IF Occupied(b[r][i - 1]) THEN RefLetter(b[r][i - 1]) ELSE "."]

KingsOf(b, king) == {sq \in Idx8 \X Idx8 : b[sq[1]][sq[2]] = king}

\* C13: whatever the pieces on the board (several kings of one colour
\* included), what the encoder returns is a string, never None, and read
\* back square by square it shows every piece of the board on its square
\* and nothing else: nothing is refused, dropped or repaired.
C13_AnyBoardSerialised ==
    fen_pc = "done" =>
        /\ fen_string # None
        /\ Len(Fields(fen_string)) = 8
        /\ \A r \in Idx8 :
            SquaresOfField(Fields(fen_string)[r + 1]) = SquaresOfRow(fen_board, r)

\* C13 witness: a board with two white kings has been encoded and both
\* kings are in the returned string.
C13_Witness ==
    /\ fen_pc = "done"
    /\ Cardinality(KingsOf(fen_board, "white-king")) = 2
    /\ Cardinality({i \in 1 .. Len(fen_string) : fen_string[i] = "K"}) = 2

----------------------------------------------------------------------------
(* Bounds and input sets of the corner ordering *)

MaxStep == 2

\* None where a quad (a 4-row array) is expected
NoQuad == <<>>

\* The keypoints are points of a grid of pitch 20 pixels, MaxStep + 1
\* columns by 3 rows: the unit square has area 400, below every area
\* threshold of the scripts; a 40 x 40 square has area 1600, above them.
GridPoints == {<<20 * i, 20 * j>> : i \in 0 .. MaxStep, j \in 0 .. 2}

\* Any 4 keypoints in any order, repetitions included.
KeypointLists == [1 .. 4 -> GridPoints]

----------------------------------------------------------------------------
(* Arithmetic shared by the corner ordering routines.  Points are pairs of *)
(* integer pixels, so the float32 sums, differences and products of the    *)
(* code are exact.                                                         *)

\* (a - o) x (b - o)
Cross(o, a, b) == (a[1] - o[1]) * (b[2] - o[2]) - (a[2] - o[2]) * (b[1] - o[1])

\* points[i] - points.mean(axis=0), times 4
FromCentroid(points, i) ==
    <<4 * points[i][1] - (points[1][1] + points[2][1] + points[3][1] + points[4][1]),
      4 * points[i][2] - (points[1][2] + points[2][2] + points[3][2] + points[4][2])>>

\* Where np.arctan2(v[2], v[1]) lies: 0 in (-pi, 0), 1 at 0 (its value for
\* the zero vector too), 2 in (0, pi), 3 at pi.
AngleBand(v) ==
    IF v[2] < 0 THEN 0 ELSE IF v[2] > 0 THEN 2 ELSE IF v[1] < 0 THEN 3 ELSE 1

\* arctan2 of v < arctan2 of w
AngleLess(v, w) ==
    \/ AngleBand(v) < AngleBand(w)
    \/ AngleBand(v) = AngleBand(w) /\ v[1] * w[2] - v[2] * w[1] > 0

\* The index arrays an argsort of 4 keys can return
Perms4 == {f \in [1 .. 4 -> 1 .. 4] : \A i, j \in 1 .. 4 : f[i] = f[j] => i = j}

\* a[f]
Permuted(a, f) == <<a[f[1]], a[f[2]], a[f[3]], a[f[4]]>>

\* Faulty variant: the points are left in the order they came in.
SortByAngle_AsGiven(points) == {points}

\* points[np.argsort(angle)]: the arrays the sort can return.  np.argsort
\* is not a stable sort, so points of equal angle come in either order.
SortByAngle(points) ==
    LET v == <<FromCentroid(points, 1), FromCentroid(points, 2),
               FromCentroid(points, 3), FromCentroid(points, 4)>>
    IN  {Permuted(points, f) : f \in
            {g \in Perms4 : \A k \in 1 .. 3 : ~AngleLess(v[g[k + 1]], v[g[k]])}}

\* np.argmin(poly[:,0] + poly[:,1]), counted from 1: the first minimum
ArgMinSum(poly) ==
    CHOOSE i \in 1 .. 4 :
        \A j \in 1 .. 4 :
            \/ poly[i][1] + poly[i][2] < poly[j][1] + poly[j][2]
            \/ poly[i][1] + poly[i][2] = poly[j][1] + poly[j][2] /\ i <= j

\* np.roll(a, shift, axis=0) of a 4-row array
NpRoll(a, shift) ==
    <<a[((0 - shift) % 4) + 1], a[((1 - shift) % 4) + 1],
      a[((2 - shift) % 4) + 1], a[((3 - shift) % 4) + 1]>>

\* np.array([poly[0], poly[3], poly[2], poly[1]])
Flip(poly) == <<poly[1], poly[4], poly[3], poly[2]>>

\* The rows of P without repetitions, each at its first occurrence
\* (np.unique(..., return_index=True) followed by P[np.sort(idx)]).
FirstOccurrences(P) ==
    LET keep == {i \in 1 .. Len(P) : \A j \in 1 .. i - 1 : P[j] # P[i]}
    IN  <<>> \o [k \in 1 .. Cardinality(keep) |->
                    P[CHOOSE i \in keep : Cardinality({j \in keep : j < i}) = k - 1]]

\* Row p before row q in np.unique(P, axis=0): by x, then by y
LexLess(p, q) == p[1] < q[1] \/ (p[1] = q[1] /\ p[2] < q[2])

\* np.unique(P, axis=0): the distinct rows in lexicographic order
UniqueRows(P) ==
    LET rows == {P[i] : i \in 1 .. Len(P)}
    IN  <<>> \o [k \in 1 .. Cardinality(rows) |->
                    CHOOSE p \in rows : Cardinality({q \in rows : LexLess(q, p)}) = k - 1]

\* p lies on the closed segment from a to b
OnSegment(p, a, b) ==
    /\ Cross(a, b, p) = 0
    /\ (p[1] - a[1]) * (p[1] - b[1]) + (p[2] - a[2]) * (p[2] - b[2]) <= 0

\* p lies strictly inside the triangle a, b, c
InsideTriangle(p, a, b, c) ==
    \/ Cross(a, b, p) > 0 /\ Cross(b, c, p) > 0 /\ Cross(c, a, p) > 0
    \/ Cross(a, b, p) < 0 /\ Cross(b, c, p) < 0 /\ Cross(c, a, p) < 0

\* The rows of cv2.convexHull(P) for 4 distinct points: the points that do
\* not lie in the hull of the other three.
HullVertices(P) ==
    {i \in 1 .. 4 :
        LET o == <<P[(i % 4) + 1], P[((i + 1) % 4) + 1], P[((i + 2) % 4) + 1]>>
        IN  ~(\/ OnSegment(P[i], o[1], o[2])
              \/ OnSegment(P[i], o[2], o[3])
              \/ OnSegment(P[i], o[3], o[1])
              \/ InsideTriangle(P[i], o[1], o[2], o[3]))}

\* Sum of x1*y2 - x2*y1 over the edges: twice the signed area
Area2(q) ==
    (q[1][1] * q[2][2] - q[2][1] * q[1][2]) + (q[2][1] * q[3][2] - q[3][1] * q[2][2])
    + (q[3][1] * q[4][2] - q[4][1] * q[3][2]) + (q[4][1] * q[1][2] - q[1][1] * q[4][2])

Abs(n) == IF n < 0 THEN -n ELSE n

RECURSIVE ISqrtIn(_, _, _)
\* The largest k in lo .. hi with k*k <= n
ISqrtIn(n, lo, hi) ==
    IF lo = hi THEN lo
    ELSE LET mid == (lo + hi + 1) \div 2
         IN  IF mid * mid <= n THEN ISqrtIn(n, mid, hi) ELSE ISqrtIn(n, lo, mid - 1)

\* np.linalg.norm(a - b) in tenths of a pixel, rounded down
Dist10(a, b) ==
    ISqrtIn(100 * ((a[1] - b[1]) * (a[1] - b[1]) + (a[2] - b[2]) * (a[2] - b[2])), 0, 10000)

----------------------------------------------------------------------------
(* board_orientation.py: order_corners *)

\* Rotate the sorted corners to start at the corner of least x + y.
StartAtTopLeft(poly) == NpRoll(poly, -(ArgMinSum(poly) - 1))

\* order_corners: sort by angle around the centroid, start at min x + y.
\* The value is the set of arrays the call can return (one array unless two
\* points have the same angle).
OrderCorners(points) == {StartAtTopLeft(poly) : poly \in SortByAngle(points)}

----------------------------------------------------------------------------
(* board_geometry.py: is_convex_quad, quad_is_reasonable, hull_order4,     *)
(* rowcol_fallback.  The keypoints are finite, so the NaN/Inf filter keeps *)
(* every row, and they are whole pixels, so np.round(P, 3) changes none.   *)

GEOM_MIN_AREA == 800

\* cross(b - a, c - b) at the vertex after q[i]
TurnAt(q, i) == Cross(q[i], q[(i % 4) + 1], q[((i + 1) % 4) + 1])

IsConvexQuad(q) ==
    LET s == Sign(TurnAt(q, 1))
    IN  \A i \in 2 .. 4 : Sign(TurnAt(q, i)) = s \/ TurnAt(q, i) = 0

\* The side (max - min + 1) of cv2.boundingRect along coordinate k
BoundingSide(q, k) ==
    LET vals == {q[i][k] : i \in 1 .. 4}
    IN  (CHOOSE m \in vals : \A v \in vals : v <= m)
        - (CHOOSE m \in vals : \A v \in vals : m <= v) + 1

\* quad_is_reasonable with aspect_low = 1 / low_inv
QuadIsReasonable(q, min_area, low_inv, aspect_high) ==
    IF ~IsConvexQuad(q) THEN FALSE
    ELSE IF Abs(Area2(q)) < 2 * min_area THEN FALSE
    ELSE LET w == BoundingSide(q, 1)
             h == Max2(BoundingSide(q, 2), 1)
         IN  h <= low_inv * w /\ w <= aspect_high * h

\* hull_order4: None, or the set of arrays the call can return.  When the
\* hull has 4 rows they are the 4 points, no two in one direction from the
\* centroid, so the order cv2.convexHull lists them in does not reach the
\* result.
HullOrder4(kps_xy) ==
    LET P == FirstOccurrences(kps_xy)
    IN  IF Len(P) # 4 THEN {NoQuad}
        ELSE IF Cardinality(HullVertices(P)) # 4 THEN {NoQuad}
        ELSE {StartAtTopLeft(hull) : hull \in SortByAngle(P)}

\* pair[np.argsort(pair[:,0])]: the arrays the sort can return
SortPairByX(pair) ==
    IF pair[1][1] < pair[2][1] THEN {pair}
    ELSE IF pair[2][1] < pair[1][1] THEN {<<pair[2], pair[1]>>}
    ELSE {pair, <<pair[2], pair[1]>>}

\* Top two rows by y, bottom two rows by y, each pair by x: TL, TR, BR, BL.
\* Rows of equal y, and rows of a pair with equal x, come in either order.
TopBottomOrder(P) ==
    LET by_y == {f \in Perms4 : \A k \in 1 .. 3 : P[f[k]][2] <= P[f[k + 1]][2]}
    IN  UNION {{<<top2[1], top2[2], bot2[2], bot2[1]>> :
                    top2 \in SortPairByX(<<P[f[1]], P[f[2]]>>),
                    bot2 \in SortPairByX(<<P[f[3]], P[f[4]]>>)} : f \in by_y}

\* rowcol_fallback
RowcolFallback(kps_xy) == IF Len(kps_xy) # 4 THEN {NoQuad} ELSE TopBottomOrder(kps_xy)

----------------------------------------------------------------------------
(* board_mapper.py: convex_hull_order4 *)

\* convex_hull_order4 of board_mapper.py: None, or the set of arrays the
\* call can return.  With 4 unique points the array that is sorted by angle
\* holds these 4 points, whether it is the hull or, the hull having fewer
\* rows, P itself.
Mapper_ConvexHullOrder4(pts_xy) ==
    LET P == UniqueRows(pts_xy)
    IN  IF Len(P) < 4 THEN {NoQuad}
        ELSE {Flip(StartAtTopLeft(poly)) : poly \in SortByAngle(P)}

----------------------------------------------------------------------------
(* rectify_one.py: convex_hull_order4, quad_is_reasonable, simple_order_xy4 *)

RECTIFY_MIN_AREA == 500

\* np.lexsort((poly[:,0], poly[:,1]))[0], counted from 1: least y, then least x
ArgMinYX(poly) ==
    CHOOSE i \in 1 .. 4 :
        \A j \in 1 .. 4 :
            \/ poly[i][2] < poly[j][2]
            \/ poly[i][2] = poly[j][2] /\ poly[i][1] < poly[j][1]
            \/ poly[i] = poly[j] /\ i <= j

\* The flip of a polygon whose signed area is negative
EnsurePositiveArea(poly) == IF Area2(poly) < 0 THEN Flip(poly) ELSE poly

\* convex_hull_order4 of rectify_one.py: None, or the set of arrays the call
\* can return.
Rectify_ConvexHullOrder4(pts_xy) ==
    LET P == UniqueRows(pts_xy)
    IN  IF Len(P) < 4 THEN {NoQuad}
        ELSE {EnsurePositiveArea(NpRoll(poly, -(ArgMinYX(poly) - 1))) :
                poly \in SortByAngle(P)}

\* simple_order_xy4
SimpleOrderXy4(pts) == TopBottomOrder(pts)

\* quad_is_reasonable of rectify_one.py with aspect_low = 1 / low_inv: the
\* area, then the mean width over the mean height (a mean of 0 is replaced
\* by 1e-6; lengths are in tenths of a pixel).
Rectify_QuadIsReasonable(q, min_area, low_inv, aspect_high) ==
    IF Abs(Area2(q)) < 2 * min_area THEN FALSE
    ELSE LET w == Dist10(q[1], q[2]) + Dist10(q[4], q[3])
             h == Dist10(q[1], q[4]) + Dist10(q[2], q[3])
         IN  IF w = 0 /\ h = 0 THEN TRUE
             ELSE IF w = 0 \/ h = 0 THEN FALSE
             ELSE h <= low_inv * w /\ w <= aspect_high * h

----------------------------------------------------------------------------
(* The callers of the ordering routines, up to the quad they pass on to    *)
(* cv2.getPerspectiveTransform.  Each yields what its ordering step        *)
(* returned and the quad passed on (None when the caller stops before).    *)

\* board_orientation.get_perspective_transform: order_corners, then the
\* transform.
OrientationResolve(points) ==
    {[ordered |-> quad, handed |-> quad] : quad \in OrderCorners(points)}

\* What board_geometry.main does with the quad the ordering step gave:
\* quad_is_reasonable with the defaults of the argument parser.
GeometryValidate(quad) ==
    IF quad = NoQuad THEN [ordered |-> NoQuad, handed |-> NoQuad]
    ELSE IF ~QuadIsReasonable(quad, GEOM_MIN_AREA, 4, 4)
    THEN [ordered |-> quad, handed |-> NoQuad]
    ELSE [ordered |-> quad, handed |-> quad]

\* board_geometry.main: hull_order4, else rowcol_fallback, then the checks.
GeometryResolve(kps_xy) ==
    {GeometryValidate(quad) :
        quad \in (HullOrder4(kps_xy) \ {NoQuad})
                 \cup (IF NoQuad \in HullOrder4(kps_xy) THEN RowcolFallback(kps_xy) ELSE {})}

\* board_mapper.get_perspective_transform: convex_hull_order4, ValueError
\* when it returns None.
MapperResolve(points) ==
    {[ordered |-> quad, handed |-> quad] : quad \in Mapper_ConvexHullOrder4(points)}

\* What rectify_one.main does with the quad the ordering step gave:
\* quad_is_reasonable(min_area=500, aspect_low=0.2, aspect_high=5), which
\* --force overrides.
RectifyValidate_ForceIgnored(quad, forced) ==
    IF ~Rectify_QuadIsReasonable(quad, RECTIFY_MIN_AREA, 5, 5)
    THEN [ordered |-> quad, handed |-> NoQuad, written |-> {}, exit_code |-> 1]
    ELSE [ordered |-> quad, handed |-> quad,
          written |-> {"H.npy", "rectified.jpg"}, exit_code |-> 0]

RectifyValidate(quad, forced) ==
    IF ~Rectify_QuadIsReasonable(quad, RECTIFY_MIN_AREA, 5, 5) /\ ~forced
    THEN [ordered |-> quad, handed |-> NoQuad, written |-> {}, exit_code |-> 1]
    ELSE [ordered |-> quad, handed |-> quad,
          written |-> {"H.npy", "rectified.jpg"}, exit_code |-> 0]

\* rectify_one.main: convex_hull_order4, else simple_order_xy4, then the
\* checks.
RectifyResolve(kps_xy, forced) ==
    {RectifyValidate(quad, forced) :
        quad \in (Rectify_ConvexHullOrder4(kps_xy) \ {NoQuad})
                 \cup (IF NoQuad \in Rectify_ConvexHullOrder4(kps_xy)
                       THEN SimpleOrderXy4(kps_xy) ELSE {})}

QuadInit ==
    /\ kps \in KeypointLists
    /\ caller = "none"
    /\ force = FALSE
    /\ ordered = NoQuad
    /\ handed = NoQuad
    /\ MapIdle
    /\ OrientIdle
    /\ FenIdle
    /\ PipeIdle
    /\ written = {}
    /\ exit_code = -1
    /\ DbgIdle
    /\ SrvIdle
    /\ EngIdle

OrientationOrders ==
    /\ caller = "none"
    /\ caller' = "board_orientation"
    /\ \E res \in OrientationResolve(kps) :
        ordered' = res.ordered /\ handed' = res.handed
    /\ UNCHANGED <<kps, force, written, exit_code, mapVars, orientVars, fenVars, pipeVars>>
    /\ UNCHANGED <<dbgVars, srvVars, engVars>>

GeometryOrders ==
    /\ caller = "none"
    /\ caller' = "board_geometry"
    /\ \E res \in GeometryResolve(kps) :
        ordered' = res.ordered /\ handed' = res.handed
    /\ UNCHANGED <<kps, force, written, exit_code, mapVars, orientVars, fenVars, pipeVars>>
    /\ UNCHANGED <<dbgVars, srvVars, engVars>>

MapperOrders ==
    /\ caller = "none"
    /\ caller' = "board_mapper"
    /\ \E res \in MapperResolve(kps) :
        ordered' = res.ordered /\ handed' = res.handed
    /\ UNCHANGED <<kps, force, written, exit_code, mapVars, orientVars, fenVars, pipeVars>>
    /\ UNCHANGED <<dbgVars, srvVars, engVars>>

RectifyOrders ==
    /\ caller = "none"
    /\ caller' = "rectify_one"
    /\ \E forced \in BOOLEAN :
        /\ force' = forced
        /\ \E res \in RectifyResolve(kps, forced) :
            /\ ordered' = res.ordered
            /\ handed' = res.handed
            /\ written' = res.written
            /\ exit_code' = res.exit_code
    /\ UNCHANGED <<kps, mapVars, orientVars, fenVars, pipeVars>>
    /\ UNCHANGED <<dbgVars, srvVars, engVars>>

QuadNext == OrientationOrders \/ GeometryOrders \/ MapperOrders \/ RectifyOrders

SpecQuad == QuadInit /\ [][QuadNext]_vars

----------------------------------------------------------------------------
(* Corner ordering: what the properties below read off a quad.  Image      *)
(* coordinates have y growing downward, so walking top-left, top-right,    *)
(* bottom-right, bottom-left turns the same way at every vertex and that   *)
(* turn has a positive cross product.                                      *)

Next4(i) == (i % 4) + 1

\* The turn of the walk q[i] -> q[i+1] -> q[i+2]
TurnOf(q, i) ==
    (q[Next4(i)][1] - q[i][1]) * (q[Next4(Next4(i))][2] - q[Next4(i)][2])
    - (q[Next4(i)][2] - q[i][2]) * (q[Next4(Next4(i))][1] - q[Next4(i)][1])

\* TL, TR, BR, BL is the direction of q, and q is strictly convex
TurnsLikeTLTRBRBL(q) == \A i \in 1 .. 4 : TurnOf(q, i) > 0

\* TL, BL, BR, TR (the mirrored walk) is the direction of q
TurnsMirrored(q) == \A i \in 1 .. 4 : TurnOf(q, i) < 0

\* The 4 points are the vertices of a strictly convex quadrilateral.
InConvexPosition(P) ==
    \E f \in Perms4 : TurnsLikeTLTRBRBL(Permuted(P, f))

\* No turn of q is against the others: q is convex and does not cross itself.
ConvexQuad(q) ==
    \/ \A i \in 1 .. 4 : TurnOf(q, i) >= 0
    \/ \A i \in 1 .. 4 : TurnOf(q, i) <= 0

SamePoints(q, P) == {q[i] : i \in 1 .. 4} = {P[i] : i \in 1 .. 4}

LeastSumFirst(q) == \A i \in 1 .. 4 : q[1][1] + q[1][2] <= q[i][1] + q[i][2]

PairwiseDistinct(q) == \A i, j \in 1 .. 4 : q[i] = q[j] => i = j

\* C16: for 4 points in convex position every ordering routine returns the
\* 4 points as top-left, top-right, bottom-right, bottom-left: the vertex
\* of least x + y first, the others in that one direction, never mirrored.
C16_TopLeftThenClockwise ==
    (caller \in {"board_orientation", "board_geometry", "board_mapper", "rectify_one"}
     /\ InConvexPosition(kps)) =>
        /\ ordered # NoQuad
        /\ SamePoints(ordered, kps)
        /\ LeastSumFirst(ordered)
        /\ TurnsLikeTLTRBRBL(ordered)
        /\ ~TurnsMirrored(ordered)

\* What order_corners and hull_order4 hold to (the two routines of C16 that
\* do return top-left, top-right, bottom-right, bottom-left).
OrderedByOrientationAndGeometry ==
    (caller \in {"board_orientation", "board_geometry"} /\ InConvexPosition(kps)) =>
        /\ ordered # NoQuad
        /\ SamePoints(ordered, kps)
        /\ LeastSumFirst(ordered)
        /\ TurnsLikeTLTRBRBL(ordered)

\* What the ordering routine a caller starts with can return for P.
RoutineOf(who, P) ==
    IF who = "board_orientation" THEN OrderCorners(P) ELSE HullOrder4(P)

\* C17: for 4 points in convex position, order_corners and hull_order4
\* return a quad that starts at a vertex of least x + y, that every
\* permutation of the input gives as well, and that the routine maps to
\* itself.
C17_OrderOfInputIrrelevant ==
    (caller \in {"board_orientation", "board_geometry"} /\ InConvexPosition(kps)) =>
        /\ ordered # NoQuad
        /\ SamePoints(ordered, kps)
        /\ LeastSumFirst(ordered)
        /\ \A f \in Perms4 : RoutineOf(caller, Permuted(kps, f)) = {ordered}
        /\ RoutineOf(caller, ordered) = {ordered}

\* C17 witness: hull_order4 was given the corners of a tilted quad in an
\* order that is not the returned one, and returned them top-left first.
C17_Witness ==
    /\ caller = "board_geometry"
    /\ InConvexPosition(kps)
    /\ ordered # NoQuad
    /\ kps # ordered
    /\ kps[1] # ordered[1]
    /\ ordered[1] = <<0, 20>> /\ ordered[2] = <<40, 0>>
    /\ TurnsLikeTLTRBRBL(ordered)

\* C18: whatever the 4 input points, a quad passed on to
\* cv2.getPerspectiveTransform is convex and does not cross itself.
C18_HandedQuadConvex ==
    handed # NoQuad => ConvexQuad(handed)

\* C19: when the ordering step of the quad resolver (hull ordering, then
\* the y-then-x fallback; order_corners in the server) returns a quad, its
\* 4 vertices are pairwise distinct.
C19_OrderedVerticesDistinct ==
    (caller \in {"board_geometry", "board_orientation"} /\ ordered # NoQuad) =>
        PairwiseDistinct(ordered)

----------------------------------------------------------------------------
(* cv2.getPerspectiveTransform in exact arithmetic.  A homography is kept  *)
(* as an integer matrix, a positive multiple of the one OpenCV returns     *)
(* with h33 = 1: _apply_H_point gives the same point for both.             *)

RECURSIVE Gcd(_, _)
Gcd(a, b) == IF b = 0 THEN Abs(a) ELSE Gcd(b, a % Abs(b))

\* The matrix divided by the gcd of its entries
Reduced(M) ==
    LET g == Gcd(Gcd(Gcd(Gcd(M[1][1], M[1][2]), Gcd(M[1][3], M[2][1])),
                     Gcd(Gcd(M[2][2], M[2][3]), Gcd(M[3][1], M[3][2]))), M[3][3])
    IN  IF g = 0 THEN M
        ELSE << <<M[1][1] \div g, M[1][2] \div g, M[1][3] \div g>>,
                <<M[2][1] \div g, M[2][2] \div g, M[2][3] \div g>>,
                <<M[3][1] \div g, M[3][2] \div g, M[3][3] \div g>> >>

MatMul(A, B) ==
    LET e(i, j) == A[i][1] * B[1][j] + A[i][2] * B[2][j] + A[i][3] * B[3][j]
    IN  << <<e(1, 1), e(1, 2), e(1, 3)>>,
           <<e(2, 1), e(2, 2), e(2, 3)>>,
           <<e(3, 1), e(3, 2), e(3, 3)>> >>

\* The adjugate: a multiple of the inverse
Adjugate(M) ==
    << <<M[2][2] * M[3][3] - M[2][3] * M[3][2], M[1][3] * M[3][2] - M[1][2] * M[3][3],
         M[1][2] * M[2][3] - M[1][3] * M[2][2]>>,
       <<M[2][3] * M[3][1] - M[2][1] * M[3][3], M[1][1] * M[3][3] - M[1][3] * M[3][1],
         M[1][3] * M[2][1] - M[1][1] * M[2][3]>>,
       <<M[2][1] * M[3][2] - M[2][2] * M[3][1], M[1][2] * M[3][1] - M[1][1] * M[3][2],
         M[1][1] * M[2][2] - M[1][2] * M[2][1]>> >>

Negated(M) ==
    << <<-M[1][1], -M[1][2], -M[1][3]>>, <<-M[2][1], -M[2][2], -M[2][3]>>,
       <<-M[3][1], -M[3][2], -M[3][3]>> >>

\* A multiple of the projective map that takes the unit square (0,0),
\* (1,0), (1,1), (0,1) to the 4 points of q
SquareToQuad(q) ==
    LET dx1 == q[2][1] - q[3][1]
        dx2 == q[4][1] - q[3][1]
        sx == q[1][1] - q[2][1] + q[3][1] - q[4][1]
        dy1 == q[2][2] - q[3][2]
        dy2 == q[4][2] - q[3][2]
        sy == q[1][2] - q[2][2] + q[3][2] - q[4][2]
        den == dx1 * dy2 - dx2 * dy1
        g == sx * dy2 - dx2 * sy
        h == dx1 * sy - sx * dy1
    IN  Reduced(<< <<den * (q[2][1] - q[1][1]) + g * q[2][1],
                     den * (q[4][1] - q[1][1]) + h * q[4][1], den * q[1][1]>>,
                   <<den * (q[2][2] - q[1][2]) + g * q[2][2],
                     den * (q[4][2] - q[1][2]) + h * q[4][2], den * q[1][2]>>,
                   <<g, h, den>> >>)

\* Three of the 4 points lie on one line (two equal points included): the
\* 8 equations of the transform are then dependent.
ThreeOnALine(q) ==
    \E i, j, k \in 1 .. 4 : i < j /\ j < k /\ Cross(q[i], q[j], q[k]) = 0

\* The matrix of a singular system: the LU solver either reports failure,
\* and the unknowns are set to 0 under h33 = 1, or divides by a rounding
\* residue and leaves arbitrary entries.
ZeroH == << <<0, 0, 0>>, <<0, 0, 0>>, <<0, 0, 1>> >>

SingularOutcomes == {ZeroH} \cup Homographies

\* cv2.getPerspectiveTransform(from, to): the matrices the call can return
GetPerspectiveTransform(from, to) ==
    IF ThreeOnALine(from) \/ ThreeOnALine(to) THEN SingularOutcomes
    ELSE LET M == Reduced(MatMul(SquareToQuad(to), Reduced(Adjugate(SquareToQuad(from)))))
         IN  IF M[3][3] = 0 THEN SingularOutcomes
             ELSE IF M[3][3] < 0 THEN {Negated(M)}
             ELSE {M}

----------------------------------------------------------------------------
(* What a photograph shows: where the 4 corners of the physical board lie  *)
(* in the 640x640 working image, in the order a8, h8, h1, a1, and the      *)
(* lightness (L channel) of its 64 squares.                                *)

\* Outlines as seen with a8 at the top left: a board filling the middle of
\* the image, one of 8x8 pixels, and one 560 pixels wide and 40 high.
BoardQuads ==
    { << <<80, 80>>, <<400, 80>>, <<400, 400>>, <<80, 400>> >>,
      << <<300, 300>>, <<308, 300>>, <<308, 308>>, <<300, 308>> >>,
      << <<40, 300>>, <<600, 300>>, <<600, 340>>, <<40, 340>> >> }

\* "board": dark squares 60, light squares 200, a1 dark; "worn": the same
\* with dark pieces standing on the light squares of the two far ranks;
\* "uniform": one lightness everywhere.
Lights == {"board", "worn", "uniform"}

\* The square in row i (0 is rank 8) and column j (0 is file a)
Lightness(light, i, j) ==
    IF light = "uniform" THEN 128
    ELSE IF (i + j) % 2 = 1 THEN 60
    ELSE IF light = "worn" /\ i < 2 THEN 90
    ELSE 200

\* The camera stands on any of the 4 sides of the board.
Scenes ==
    {[place |-> NpRoll(q, -t), light |-> l] : q \in BoardQuads, t \in 0 .. 3, l \in Lights}

\* The corners of the board in units of one square, in the order a8, h8, h1, a1
PhysCorner == << <<0, 0>>, <<8, 0>>, <<8, 8>>, <<0, 8>> >>

\* s lists the 4 corners of the board of sc going round its outline
IsBoardOutline(sc, s) ==
    \E f \in Perms4 :
        /\ s = Permuted(sc.place, f)
        /\ \A i \in 1 .. 4 : (f[(i % 4) + 1] - f[i]) % 2 = 1

\* The corner of the physical board that sc shows at image point p
PhysAt(sc, p) == PhysCorner[CHOOSE j \in 1 .. 4 : sc.place[j] = p]

\* cv2.warpPerspective of the image through the transform taking from[i] to
\* to[i], read per cell of the 8x8 grid of the canvas: the transform takes
\* the outline of the board to the outline of the canvas, so the cell in row
\* r and column c of the canvas shows one square of the board.
Warp(sc, from, to) ==
    LET o == PhysAt(sc, from[CHOOSE i \in 1 .. 4 : to[i] = <<0, 0>>])
        a == PhysAt(sc, from[CHOOSE i \in 1 .. 4 : to[i] = <<IMAGE_SIZE - 1, 0>>])
        b == PhysAt(sc, from[CHOOSE i \in 1 .. 4 : to[i] = <<0, IMAGE_SIZE - 1>>])
        x2(r, c) == 2 * o[1] + ((2 * c + 1) * (a[1] - o[1]) + (2 * r + 1) * (b[1] - o[1])) \div 8
        y2(r, c) == 2 * o[2] + ((2 * c + 1) * (a[2] - o[2]) + (2 * r + 1) * (b[2] - o[2])) \div 8
    IN  [r \in Idx8 |-> [c \in Idx8 |-> Lightness(sc.light, y2(r, c) \div 2, x2(r, c) \div 2)]]

----------------------------------------------------------------------------
(* board_orientation.py: _a1_is_dark and get_perspective_transform *)

RECURSIVE SumCells(_, _, _)
\* The sum of the cell means of one parity over the cells 0 .. k (row-major)
SumCells(rect, parity, k) ==
    IF k < 0 THEN 0
    ELSE SumCells(rect, parity, k - 1)
         + (IF ((k \div 8) + (k % 8)) % 2 = parity THEN rect[k \div 8][k % 8] ELSE 0)

\* mu_dark <= mu_light
A1IsDark_OrEqual(rect) == SumCells(rect, 1, 63) <= SumCells(rect, 0, 63)

\* _a1_is_dark: mu_dark < mu_light, the means of 32 cells each
A1IsDark(rect) == SumCells(rect, 1, 63) < SumCells(rect, 0, 63)

\* dst0
Dst0 ==
    << <<0, 0>>, <<IMAGE_SIZE - 1, 0>>, <<IMAGE_SIZE - 1, IMAGE_SIZE - 1>>,
       <<0, IMAGE_SIZE - 1>> >>

\* dst0 rolled by two places
Dst90_HalfTurn == NpRoll(Dst0, 2)

\* dst90 = np.roll(dst0, 1, axis=0)
Dst90 == NpRoll(Dst0, 1)

\* What _a1_is_dark can report on the image warped from `from` to `to`: when
\* `from` is not the outline of the board (a missed or repeated corner) the
\* warped image is not determined by the scene.
LooksDark(sc, from, to) ==
    IF IsBoardOutline(sc, from) /\ ~ThreeOnALine(from) THEN {A1IsDark(Warp(sc, from, to))}
    ELSE BOOLEAN

\* get_perspective_transform(img_resized, corners): the (src, dst, matrix,
\* evaluations of _a1_is_dark) the call can end with
OrientationTransform(sc, pts) ==
    UNION { UNION { UNION {
        IF dark THEN {[src |-> s, dst |-> Dst0, homography |-> H0,
                       tests |-> <<[dst |-> Dst0, dark |-> dark]>>]}
        ELSE {[src |-> s, dst |-> Dst90, homography |-> H90,
               tests |-> <<[dst |-> Dst0, dark |-> dark]>>] :
                  H90 \in GetPerspectiveTransform(s, Dst90)}
        : dark \in LooksDark(sc, s, Dst0) }
        : H0 \in GetPerspectiveTransform(s, Dst0) }
        : s \in OrderCorners(pts) }

----------------------------------------------------------------------------
(* server.py: run_full_pipeline inside recognize_board_endpoint *)

\* Piece boxes of the pipeline: anchors (240, 200) and (304, 304)
PipeBoxes == { <<220, 170, 260, 210>>, <<294, 289, 314, 309>> }

PipeDetections == [xyxy : PipeBoxes, conf : {9}, cls : ClassIds]

\* What get_board_corners can return for a scene: None (fewer than 4 boxes),
\* the 4 corners in either of two orders, or a list in which one corner was
\* detected twice and another missed.
CornerLists(sc) ==
    {NoQuad, sc.place, Permuted(sc.place, <<3, 1, 4, 2>>)}
    \cup (IF sc.light = "board" /\ sc.place \in BoardQuads
          THEN {<<sc.place[1], sc.place[1], sc.place[2], sc.place[3]>>}
          ELSE {})

PipeInit ==
    /\ upload \in {"image", "garbage"}
    /\ IF upload = "image"
       THEN scene \in Scenes /\ corners \in CornerLists(scene)
       ELSE scene = None /\ corners = NoQuad
    /\ src = NoQuad
    /\ dst = NoQuad
    /\ tests = <<>>
    /\ pipe_pc = "decode"
    /\ response = None
    /\ MapIdle
    /\ OrientIdle
    /\ FenIdle
    /\ QuadIdle
    /\ DbgIdle
    /\ SrvIdle
    /\ EngIdle

\* cv2.imdecode: None raises ValueError, which the endpoint answers with 400
PipeDecode ==
    /\ pipe_pc = "decode"
    /\ IF upload = "garbage"
       THEN /\ response' = [code |-> 400, status |-> "error", fen |-> None]
            /\ pipe_pc' = "done"
       ELSE /\ response' = response
            /\ pipe_pc' = "corners"
    /\ UNCHANGED <<upload, corners, scene, src, dst, tests>>
    /\ UNCHANGED <<mapVars, orientVars, fenVars, quadVars>>
    /\ UNCHANGED <<dbgVars, srvVars, engVars>>

\* get_board_corners: None makes run_full_pipeline return None, which the
\* endpoint answers with 422
PipeCorners ==
    /\ pipe_pc = "corners"
    /\ IF corners = NoQuad
       THEN /\ response' = [code |-> 422, status |-> "error", fen |-> None]
            /\ pipe_pc' = "done"
       ELSE /\ response' = response
            /\ pipe_pc' = "homography"
    /\ UNCHANGED <<upload, corners, scene, src, dst, tests>>
    /\ UNCHANGED <<mapVars, orientVars, fenVars, quadVars>>
    /\ UNCHANGED <<dbgVars, srvVars, engVars>>

\* homography = get_perspective_transform(img_resized, corners)
PipeHomography ==
    /\ pipe_pc = "homography"
    /\ \E res \in OrientationTransform(scene, corners) :
        /\ src' = res.src
        /\ dst' = res.dst
        /\ tests' = res.tests
        /\ homography' = res.homography
    /\ pipe_pc' = "pieces"
    /\ UNCHANGED <<items, idx, board_matrix, conf_grid, touched, map_pc>>
    /\ UNCHANGED <<upload, corners, scene, response>>
    /\ UNCHANGED <<orientVars, fenVars, quadVars>>
    /\ UNCHANGED <<dbgVars, srvVars, engVars>>

\* piece_boxes = get_piece_predictions(img_resized): the list is any list of
\* at most MaxDets detections, met item by item by the loop that consumes it
PipePieces ==
    /\ pipe_pc = "pieces"
    /\ pipe_pc' = "map"
    /\ map_pc' = "loop"
    /\ UNCHANGED <<homography, items, idx, board_matrix, conf_grid, touched>>
    /\ UNCHANGED <<upload, corners, scene, src, dst, tests, response>>
    /\ UNCHANGED <<orientVars, fenVars, quadVars>>
    /\ UNCHANGED <<dbgVars, srvVars, engVars>>

\* One iteration of map_pieces_to_board on the next item of piece_boxes
PipeMapLoop ==
    /\ pipe_pc = "map"
    /\ idx < MaxDets
    /\ \E item \in PipeDetections :
        LET res == MapItem(homography, [board |-> board_matrix, conf |-> conf_grid], item)
        IN  /\ items' = Append(items, item)
            /\ board_matrix' = res.board
            /\ conf_grid' = res.conf
            /\ touched' = res.wrote
    /\ idx' = idx + 1
    /\ UNCHANGED <<homography, map_pc>>
    /\ UNCHANGED <<orientVars, fenVars, quadVars, pipeVars>>
    /\ UNCHANGED <<dbgVars, srvVars, engVars>>

\* board_state = map_pieces_to_board(...)
PipeMapReturn ==
    /\ pipe_pc = "map"
    /\ board_state' = board_matrix
    /\ map_pc' = "done"
    /\ touched' = {}
    /\ orient_pc' = "call"
    /\ pipe_pc' = "orient"
    /\ UNCHANGED <<homography, items, idx, board_matrix, conf_grid>>
    /\ UNCHANGED <<oriented, same_object>>
    /\ UNCHANGED <<upload, corners, scene, src, dst, tests, response>>
    /\ UNCHANGED <<fenVars, quadVars>>
    /\ UNCHANGED <<dbgVars, srvVars, engVars>>

\* The normalised board written over the raw board
PipeOrient_InPlace ==
    /\ pipe_pc = "orient"
    /\ board_state' = OrientForWhite(board_state).board
    /\ oriented' = OrientForWhite(board_state).board
    /\ same_object' = TRUE
    /\ orient_pc' = "done"
    /\ fen_board' = OrientForWhite(board_state).board
    /\ fen_pc' = "call"
    /\ pipe_pc' = "fen"
    /\ UNCHANGED <<fen_string>>
    /\ UNCHANGED <<upload, corners, scene, src, dst, tests, response>>
    /\ UNCHANGED <<mapVars, quadVars>>
    /\ UNCHANGED <<dbgVars, srvVars, engVars>>

\* board_state = orient_board_state_for_white(board_state)
PipeOrient ==
    /\ pipe_pc = "orient"
    /\ oriented' = OrientForWhite(board_state).board
    /\ same_object' = OrientForWhite(board_state).same
    /\ orient_pc' = "done"
    /\ fen_board' = OrientForWhite(board_state).board
    /\ fen_pc' = "call"
    /\ pipe_pc' = "fen"
    /\ UNCHANGED <<board_state, fen_string>>
    /\ UNCHANGED <<upload, corners, scene, src, dst, tests, response>>
    /\ UNCHANGED <<mapVars, quadVars>>
    /\ UNCHANGED <<dbgVars, srvVars, engVars>>

\* fen_string = convert_board_to_fen(board_state); return fen_string
PipeFen ==
    /\ pipe_pc = "fen"
    /\ fen_string' = ConvertBoardToFen(fen_board)
    /\ fen_pc' = "done"
    /\ pipe_pc' = "respond"
    /\ UNCHANGED <<fen_board>>
    /\ UNCHANGED <<upload, corners, scene, src, dst, tests, response>>
    /\ UNCHANGED <<mapVars, orientVars, quadVars>>
    /\ UNCHANGED <<dbgVars, srvVars, engVars>>

\* The endpoint's success response
PipeRespond ==
    /\ pipe_pc = "respond"
    /\ response' = [code |-> 200, status |-> "success", fen |-> fen_string]
    /\ pipe_pc' = "done"
    /\ UNCHANGED <<upload, corners, scene, src, dst, tests>>
    /\ UNCHANGED <<mapVars, orientVars, fenVars, quadVars>>
    /\ UNCHANGED <<dbgVars, srvVars, engVars>>

PipeNext ==
    \/ PipeDecode
    \/ PipeCorners
    \/ PipeHomography
    \/ PipePieces
    \/ PipeMapLoop
    \/ PipeMapReturn
    \/ PipeOrient
    \/ PipeFen
    \/ PipeRespond

SpecPipeline == PipeInit /\ [][PipeNext]_vars

----------------------------------------------------------------------------
(* Recognition pipeline: what the properties below read off a run *)

\* Destination corners for the source corners TL, TR, BR, BL: as they are,
\* and moved on by one, two and three places
Unrotated == << <<0, 0>>, <<639, 0>>, <<639, 639>>, <<0, 639>> >>

QuarterTurn == << <<0, 639>>, <<0, 0>>, <<639, 0>>, <<639, 639>> >>

HalfTurn == << <<639, 639>>, <<0, 639>>, <<0, 0>>, <<639, 0>> >>

ThreeQuarterTurn == << <<639, 0>>, <<639, 639>>, <<0, 639>>, <<0, 0>> >>

\* get_perspective_transform has returned
Decided == pipe_pc \in {"pieces", "map", "orient", "fen", "respond", "done"} /\ src # NoQuad

\* The ordered corners are the 4 corners of the board in the photograph
SeenBoard == SamePoints(src, scene.place) /\ PairwiseDistinct(src) /\ ConvexQuad(src)

RECURSIVE TotalOver(_, _)
TotalOver(rect, cells) ==
    IF cells = {} THEN 0
    ELSE LET sq == CHOOSE x \in cells : TRUE
         IN  rect[sq[1]][sq[2]] + TotalOver(rect, cells \ {sq})

\* Total lightness of the cells with (row + column) % 2 = parity
ParityTotal(rect, parity) ==
    TotalOver(rect, {sq \in Idx8 \X Idx8 : (sq[1] + sq[2]) % 2 = parity})

OddStrictlyDarker(rect) == ParityTotal(rect, 1) < ParityTotal(rect, 0)

AllEmpty == [r \in Idx8 |-> [c \in Idx8 |-> "None"]]

EmptyFen ==
    <<"8", "/", "8", "/", "8", "/", "8", "/", "8", "/", "8", "/", "8", "/", "8">>

NothingMapped == \A k \in 1 .. Len(items) : ~Hit(k)

\* C12: when no detection is mapped onto any square (no detection, or every
\* detection out of canvas or of unknown class) the request is not failed:
\* map_pieces_to_board returns an all-empty board, orient_board_state_for_white
\* returns it unchanged, and convert_board_to_fen gives "8/8/8/8/8/8/8/8".
C12_NothingMappedStillAnswers ==
    (Decided /\ NothingMapped) =>
        /\ board_matrix = AllEmpty
        /\ pipe_pc \in {"orient", "fen", "respond", "done"} => board_state = AllEmpty
        /\ pipe_pc \in {"fen", "respond", "done"} =>
            oriented = AllEmpty /\ same_object /\ fen_board = AllEmpty
        /\ pipe_pc \in {"respond", "done"} => fen_string = EmptyFen
        /\ pipe_pc = "done" =>
            response = [code |-> 200, status |-> "success", fen |-> EmptyFen]

\* C12 witness: two detections were consumed, one projected outside the
\* canvas and one of an unknown class, and the request was answered with
\* the empty position.
C12_Witness ==
    /\ pipe_pc = "done"
    /\ Decided
    /\ Len(items) = 2
    /\ NothingMapped
    /\ \E k \in 1 .. 2 : ~KnownClass(k)
    /\ \E k \in 1 .. 2 :
        KnownClass(k) /\ ~(Inside(ProjX(k)) /\ Inside(ProjY(k)))
    /\ response.fen = EmptyFen

\* The quad of the detected corners has an area below min_area or a
\* bounding box whose width / height is outside [0.25, 4]
ImplausibleQuad(P) ==
    \E f \in Perms4 :
        LET q == Permuted(P, f)
            xs == {q[i][1] : i \in 1 .. 4}
            ys == {q[i][2] : i \in 1 .. 4}
            w == (CHOOSE m \in xs : \A x \in xs : x <= m) - (CHOOSE m \in xs : \A x \in xs : m <= x)
            h == (CHOOSE m \in ys : \A y \in ys : y <= m) - (CHOOSE m \in ys : \A y \in ys : m <= y)
        IN  /\ TurnsLikeTLTRBRBL(q)
            /\ \/ Area2(q) < 2 * GEOM_MIN_AREA /\ -Area2(q) < 2 * GEOM_MIN_AREA
               \/ 4 * w < h
               \/ w > 4 * h

\* C20: a quad whose area is below the minimum-area threshold or whose
\* aspect ratio is outside the band is rejected with an error before any
\* homography is computed; no board and no position is produced from it.
C20_ImplausibleQuadRejected ==
    (corners # NoQuad /\ ImplausibleQuad(corners)) =>
        /\ src = NoQuad
        /\ pipe_pc \notin {"pieces", "map", "orient", "fen", "respond"}
        /\ pipe_pc = "done" => response.status = "error"

\* A row divided by the gcd of its entries (a zero row as it is)
RowReduced(row) ==
    LET g == Gcd(Gcd(row[1], row[2]), row[3])
    IN  IF g = 0 THEN row ELSE <<row[1] \div g, row[2] \div g, row[3] \div g>>

Det3(M) ==
    M[1][1] * (M[2][2] * M[3][3] - M[2][3] * M[3][2])
    - M[1][2] * (M[2][1] * M[3][3] - M[2][3] * M[3][1])
    + M[1][3] * (M[2][1] * M[3][2] - M[2][2] * M[3][1])

\* The determinant of M is not 0 (scaling a row does not change that)
Invertible(M) == Det3(<<RowReduced(M[1]), RowReduced(M[2]), RowReduced(M[3])>>) # 0

\* C21: homography estimation fails with an error whenever the computed
\* matrix is not invertible; a non-invertible matrix is never returned to
\* run_full_pipeline nor used by map_pieces_to_board.
C21_SingularNeverUsed ==
    /\ Decided => Invertible(homography)
    /\ (pipe_pc = "done" /\ corners # NoQuad /\ ThreeOnALine(corners)) =>
        response.status = "error"

\* A geometry stage has failed in the sense of the specification: fewer
\* than 4 corners, a repeated or collinear corner, or an implausible quad
GeometryFailed ==
    /\ upload = "image"
    /\ \/ corners = NoQuad
       \/ ThreeOnALine(corners)
       \/ ImplausibleQuad(corners)

\* C23: when a geometry stage fails the request is aborted: piece mapping,
\* orientation normalisation and encoding are not run, no position and no
\* board is returned, and the caller receives a failure response.
C23_GeometryFailureAborts ==
    GeometryFailed =>
        /\ pipe_pc \in {"decode", "corners", "homography", "done"}
        /\ items = <<>>
        /\ fen_pc = "idle"
        /\ orient_pc = "idle"
        /\ pipe_pc = "done" =>
            response.status = "error" /\ response.code # 200 /\ response.fen = None

\* rectify_one's geometry checks on the ordered quad: min_area 500 and
\* aspect band [0.2, 5]
PassesRectifyChecks == Rectify_QuadIsReasonable(ordered, RECTIFY_MIN_AREA, 5, 5)

\* C22: in rectify_one the homography and the rectified image are computed
\* and written if and only if the ordered quad passes the geometry checks or
\* --force is set; otherwise the run ends with exit status 1 and no outputs.
C22_OutputsIffValidOrForced ==
    caller = "rectify_one" =>
        IF PassesRectifyChecks \/ force
        THEN handed = ordered /\ written = {"H.npy", "rectified.jpg"} /\ exit_code = 0
        ELSE handed = NoQuad /\ written = {} /\ exit_code = 1

\* C22 witness: a quad that fails the checks was rectified under --force.
C22_Witness ==
    /\ caller = "rectify_one"
    /\ force
    /\ ~PassesRectifyChecks
    /\ handed = ordered
    /\ written # {}

\* No step of orient_board_state_for_white changes a cell of its argument.
OrientInputIntact == [][board_state' = board_state]_vars

\* C24: on every path of orient_board_state_for_white the returned board is
\* a new matrix rather than the input object.
C24_ReturnsNewMatrix ==
    orient_pc = "done" => ~same_object

\* The place of a stage in run_full_pipeline
StageRank(pc) ==
    CASE pc = "decode" -> 0
      [] pc = "corners" -> 1
      [] pc = "homography" -> 2
      [] pc = "pieces" -> 3
      [] pc = "map" -> 4
      [] pc = "orient" -> 5
      [] pc = "fen" -> 6
      [] pc = "respond" -> 7
      [] pc = "done" -> 8

\* One step of a request: the stage stays or moves on by one (or the request
\* ends); an output changes only in the stage that produces it and never
\* after that stage.
C25_Step ==
    /\ \/ StageRank(pipe_pc') \in {StageRank(pipe_pc), StageRank(pipe_pc) + 1}
       \/ pipe_pc' = "done"
    /\ corners' = corners
    /\ <<src, dst, homography>>' # <<src, dst, homography>> =>
        pipe_pc = "homography" /\ pipe_pc' = "pieces"
    /\ <<items, board_matrix>>' # <<items, board_matrix>> => pipe_pc = "map" /\ pipe_pc' = "map"
    /\ board_state' # board_state => pipe_pc = "map" /\ pipe_pc' = "orient"
    /\ oriented' # oriented => pipe_pc = "orient" /\ pipe_pc' = "fen"
    /\ fen_string' # fen_string => pipe_pc = "fen" /\ pipe_pc' = "respond"
    /\ (pipe_pc \notin {"decode", "corners", "respond"} \/ pipe_pc' # "done") => response' = response

\* C25: within one request the stages run in the order corner detection,
\* ordering and homography, piece detection, mapping, orientation, encoding,
\* and once a stage has produced its output no later stage modifies it.
C25_StagesForwardOutputsFrozen == [][C25_Step]_vars

\* C25 witness: a request went through every stage; the board was rotated by
\* the orientation stage and the raw board is still as the mapping left it.
C25_Witness ==
    /\ pipe_pc = "done"
    /\ response.code = 200
    /\ Len(items) = 2
    /\ board_state = board_matrix
    /\ oriented # board_state
    /\ response.fen = fen_string

\* C27: orient_board_state_for_white is idempotent: normalising the
\* normalised board gives the same board again and does not rotate it
\* back, also when the white and black mean rows are equal.
C27_OrientIdempotent ==
    orient_pc = "done" =>
        /\ OrientForWhite(oriented).board = oriented
        /\ OrientForWhite(oriented).same
        /\ ~MeanRowLess(SquaresHolding(oriented, WhiteLabels), SquaresHolding(oriented, BlackLabels))

\* C27 witness: a board with both colours was rotated by the first call and
\* the second call leaves the result as it is.
C27_Witness ==
    /\ orient_pc = "done"
    /\ ~same_object
    /\ oriented # board_state
    /\ OrientForWhite(oriented).board = oriented
    /\ OrientForWhite(board_state).board # board_state

----------------------------------------------------------------------------
(* board_mapper.py: map_pieces_to_board, the mapper of the debug server,   *)
(* run on the same list and matrix as piece_mapping.map_pieces_to_board    *)

EmptyDebugBoard == [r \in Idx8 |-> [c \in Idx8 |-> "empty"]]

\* cv2.transform(pt, matrix) of the anchor given in quarter pixels: the
\* first two of the 3 output channels, matrix . (x, y, 1), not divided by
\* the third
Mapper_Transform(M, box) ==
    << [n |-> M[1][1] * Anchor4(box)[1] + M[1][2] * Anchor4(box)[2] + M[1][3] * 4, d |-> 4],
       [n |-> M[2][1] * Anchor4(box)[1] + M[2][2] * Anchor4(box)[2] + M[2][3] * 4, d |-> 4] >>

\* int(new_x // square_size) with square_size = output_size / 8
Mapper_Index(u, output_size) == (8 * u.n) \div (output_size * u.d)

\* One iteration of the for loop of board_mapper.map_pieces_to_board
Mapper_MapItem(M, output_size, board, item) ==
    LET p == Mapper_Transform(M, item.xyxy)
        col == Mapper_Index(p[1], output_size)
        row == Mapper_Index(p[2], output_size)
    IN  IF item.cls \notin DOMAIN PIECE_CLASS_NAMES THEN board
        ELSE IF 0 <= row /\ row < 8 /\ 0 <= col /\ col < 8
        THEN [board EXCEPT ![row][col] = PIECE_CLASS_NAMES[item.cls]]
        ELSE board

MappersInit ==
    /\ homography \in Homographies
    /\ items = <<>>
    /\ idx = 0
    /\ board_matrix = EmptyBoard
    /\ conf_grid = EmptyConf
    /\ touched = {}
    /\ map_pc = "both"
    /\ debug_board = EmptyDebugBoard
    /\ OrientIdle
    /\ FenIdle
    /\ QuadIdle
    /\ PipeIdle
    /\ SrvIdle
    /\ EngIdle

\* The next item of the list goes through the loop of either function
MappersLoop ==
    /\ map_pc = "both"
    /\ idx < MaxDets
    /\ \E item \in Detections :
        LET res == MapItem(homography, [board |-> board_matrix, conf |-> conf_grid], item)
        IN  /\ items' = Append(items, item)
            /\ board_matrix' = res.board
            /\ conf_grid' = res.conf
            /\ touched' = res.wrote
            /\ debug_board' = Mapper_MapItem(homography, IMAGE_SIZE, debug_board, item)
    /\ idx' = idx + 1
    /\ UNCHANGED <<homography, map_pc>>
    /\ UNCHANGED <<orientVars, fenVars, quadVars, pipeVars, srvVars, engVars>>

\* Both functions return
MappersReturn ==
    /\ map_pc = "both"
    /\ map_pc' = "returned"
    /\ touched' = {}
    /\ UNCHANGED <<homography, items, idx, board_matrix, conf_grid, debug_board>>
    /\ UNCHANGED <<orientVars, fenVars, quadVars, pipeVars, srvVars, engVars>>

MappersNext == MappersLoop \/ MappersReturn

SpecMappers == MappersInit /\ [][MappersNext]_vars

\* Both functions project every anchor of the list to the same point
SamePositions ==
    \A k \in 1 .. Len(items) :
        LET p == Project(homography, items[k].xyxy)
            q == Mapper_Transform(homography, items[k].xyxy)
        IN  p[1].n * q[1].d = q[1].n * p[1].d /\ p[2].n * q[2].d = q[2].n * p[2].d

\* C28: for the same detection list, class map and projected anchor
\* positions the two mappers put the same label on every square ("empty"
\* for None), also when two detections collide on one square and when an
\* anchor falls on the canvas edge.
C28_MappersAgree ==
    (map_pc = "returned" /\ SamePositions) =>
        \A r, c \in Idx8 :
            debug_board[r][c] =
                IF board_matrix[r][c] = "None" THEN "empty" ELSE board_matrix[r][c]

----------------------------------------------------------------------------
(* server.py: recognition requests handled concurrently on the event loop. *)
(* A handler is suspended only at `await file.read()`; run_full_pipeline   *)
(* is synchronous, so what follows the await runs as one step.             *)

\* run_full_pipeline and the endpoint's answer as a function of the upload:
\* the responses the request can end with
RunFullPipeline(img) ==
    IF img.upload = "garbage" THEN {[code |-> 400, status |-> "error", fen |-> None]}
    ELSE IF img.corners = NoQuad THEN {[code |-> 422, status |-> "error", fen |-> None]}
    ELSE {[code |-> 200, status |-> "success",
           fen |-> ConvertBoardToFen(
                      OrientForWhite(MapPiecesToBoard(img.pieces, t.homography).board).board)] :
              t \in OrientationTransform(img.scene, img.corners)}

Requests == {1, 2}

CentralOutline == << <<80, 80>>, <<400, 80>>, <<400, 400>>, <<80, 400>> >>

\* The uploads of the concurrent requests: not an image; an image without a
\* board; a board seen upright, and from the side, with one or two pieces;
\* an image on which one corner is found twice.
ServerImages ==
    { [id |-> 1, upload |-> "garbage", scene |-> None, corners |-> NoQuad, pieces |-> <<>>],
      [id |-> 2, upload |-> "image", scene |-> [place |-> CentralOutline, light |-> "board"],
       corners |-> NoQuad, pieces |-> <<>>],
      [id |-> 3, upload |-> "image", scene |-> [place |-> CentralOutline, light |-> "board"],
       corners |-> CentralOutline,
       pieces |-> <<[xyxy |-> <<220, 170, 260, 210>>, conf |-> 9, cls |-> 7]>>],
      [id |-> 4, upload |-> "image", scene |-> [place |-> CentralOutline, light |-> "board"],
       corners |-> CentralOutline,
       pieces |-> <<[xyxy |-> <<294, 289, 314, 309>>, conf |-> 9, cls |-> 1]>>],
      [id |-> 5, upload |-> "image", scene |-> [place |-> NpRoll(CentralOutline, -1), light |-> "worn"],
       corners |-> CentralOutline,
       pieces |-> <<[xyxy |-> <<220, 170, 260, 210>>, conf |-> 9, cls |-> 7],
                    [xyxy |-> <<294, 289, 314, 309>>, conf |-> 9, cls |-> 1]>>],
      [id |-> 6, upload |-> "image", scene |-> [place |-> CentralOutline, light |-> "board"],
       corners |-> <<CentralOutline[1], CentralOutline[1], CentralOutline[2], CentralOutline[3]>>,
       pieces |-> <<[xyxy |-> <<220, 170, 260, 210>>, conf |-> 9, cls |-> 1]>>] }

\* Nothing read yet
NoUpload == [id |-> 0, upload |-> "nothing", scene |-> None, corners |-> NoQuad, pieces |-> <<>>]

\* The upload of whichever request read last, in place of the handler's own
ImageBytes_Shared(own, shared) == IF shared.id = 0 THEN own ELSE shared

\* image_bytes = await file.read(): a local of the handler, read from the
\* request's own file
ImageBytes(own, shared) == own

ServerInit ==
    /\ req_image \in [Requests -> ServerImages]
    /\ req_pc = [r \in Requests |-> "new"]
    /\ req_bytes = [r \in Requests |-> NoUpload]
    /\ req_result = [r \in Requests |-> None]
    /\ last_read = NoUpload
    /\ MapIdle
    /\ OrientIdle
    /\ FenIdle
    /\ QuadIdle
    /\ PipeIdle
    /\ DbgIdle
    /\ EngIdle

\* The handler of request r runs up to `await file.read()`
ReqStart(r) ==
    /\ req_pc[r] = "new"
    /\ req_pc' = [req_pc EXCEPT ![r] = "reading"]
    /\ UNCHANGED <<req_image, req_bytes, last_read, req_result>>
    /\ UNCHANGED <<mapVars, orientVars, fenVars, quadVars, pipeVars, dbgVars, engVars>>

\* The handler of request r continues with the bytes it read and returns resp
ReqFinish(r, bytes, resp) ==
    /\ req_pc[r] = "reading"
    /\ req_bytes' = [req_bytes EXCEPT ![r] = bytes]
    /\ last_read' = req_image[r]
    /\ req_result' = [req_result EXCEPT ![r] = resp]
    /\ req_pc' = [req_pc EXCEPT ![r] = "done"]
    /\ UNCHANGED <<req_image>>
    /\ UNCHANGED <<mapVars, orientVars, fenVars, quadVars, pipeVars, dbgVars, engVars>>

\* The read completes and the handler runs to its return without awaiting
\* again: run_full_pipeline is an ordinary call
ReqResume(r) ==
    \E resp \in RunFullPipeline(ImageBytes(req_image[r], last_read)) :
        ReqFinish(r, ImageBytes(req_image[r], last_read), resp)

ServerNext == \E r \in Requests : ReqStart(r) \/ ReqResume(r)

SpecServer == ServerInit /\ [][ServerNext]_vars

-----------------------------------------------------------------------------
(* server.py: the global engine, init_engine, shutdown_engine and
   analyze_position *)

\* Concurrent analysis requests
Handlers == {1, 2}

\* How many times init_engine starts a process
MaxStarts == 2

\* request.fen by what python-chess finds in it
FenKinds == {"unparsable", "no_white_king", "no_black_king", "no_kings", "invalid", "valid"}

\* What the worker thread running engine.analyse ends with
ThreadOutcomes == {"lines", "no_lines", "terminated", "engine_error"}

NoAnswer == [code |-> 0, detail |-> "", engine |-> ""]

Answer(code, detail) == [code |-> code, detail |-> detail, engine |-> ""]

\* Positions at which a handler has handed control back to the event loop:
\* before it is first scheduled, at `await asyncio.to_thread(...)`, and after
\* it returned. Everything else runs without interruption.
Yields_AfterChecks(pc) == pc \in {"new", "validated", "awaiting", "done"}

Yields(pc) == pc \in {"new", "awaiting", "done"}

\* The event loop can run handler h: no other handler is inside a
\* synchronous segment
CanRun(h) == \A o \in Handlers \ {h} : Yields(an_pc[o])

\* The event loop can run a lifecycle handler
LoopFree == \A o \in Handlers : Yields(an_pc[o])

\* Lines 180-201 with the checks in another order: FEN first
AnalyzeChecks_FenFirst(e, fen) ==
    IF fen = "unparsable" THEN Answer(400, "Invalid FEN")
    ELSE IF fen = "no_white_king" THEN Answer(400, "missing white king")
    ELSE IF fen = "no_black_king" THEN Answer(400, "missing black king")
    ELSE IF fen = "no_kings" THEN Answer(400, "missing white king and black king")
    ELSE IF fen = "invalid" THEN Answer(400, "board state is not valid chess")
    ELSE IF e = 0 THEN Answer(503, "engine is not available")
    ELSE NoAnswer

\* Lines 180-201: the HTTPException raised, or NoAnswer when every check passes
AnalyzeChecks(e, fen) ==
    IF e = 0 THEN Answer(503, "engine is not available")
    ELSE IF fen = "unparsable" THEN Answer(400, "Invalid FEN")
    ELSE IF fen = "no_white_king" THEN Answer(400, "missing white king")
    ELSE IF fen = "no_black_king" THEN Answer(400, "missing black king")
    ELSE IF fen = "no_kings" THEN Answer(400, "missing white king and black king")
    ELSE IF fen = "invalid" THEN Answer(400, "board state is not valid chess")
    ELSE NoAnswer

\* Line 255 without the test: engine.id.get("name", "stockfish")
EngineName_Unchecked(e) ==
    IF e # 0 THEN [name |-> "stockfish", deref |-> FALSE]
    ELSE [name |-> "AttributeError", deref |-> TRUE]

\* Line 255: engine.id.get("name", "stockfish") if engine else "unknown"
EngineName(e) ==
    IF e # 0 THEN [name |-> "stockfish", deref |-> FALSE]
    ELSE [name |-> "unknown", deref |-> FALSE]

EngineInit ==
    /\ engine = 0
    /\ quits = <<>>
    /\ an_pc = [h \in Handlers |-> "new"]
    /\ an_fen \in [Handlers -> FenKinds]
    /\ an_engine = [h \in Handlers |-> -1]
    /\ an_result = [h \in Handlers |-> NoAnswer]
    /\ asked = {}
    /\ deref_none = FALSE
    /\ MapIdle /\ OrientIdle /\ FenIdle /\ QuadIdle /\ PipeIdle /\ DbgIdle /\ SrvIdle

\* init_engine, popen_uci succeeded
InitEngine ==
    /\ LoopFree
    /\ Len(quits) < MaxStarts
    /\ engine' = Len(quits) + 1
    /\ quits' = Append(quits, 0)
    /\ UNCHANGED <<an_pc, an_fen, an_engine, an_result, asked, deref_none>>
    /\ UNCHANGED <<mapVars, orientVars, fenVars, quadVars, pipeVars, dbgVars, srvVars>>

\* init_engine, popen_uci raised
InitEngineFailed ==
    /\ LoopFree
    /\ engine' = 0
    /\ UNCHANGED <<quits, an_pc, an_fen, an_engine, an_result, asked, deref_none>>
    /\ UNCHANGED <<mapVars, orientVars, fenVars, quadVars, pipeVars, dbgVars, srvVars>>

\* shutdown_engine
ShutdownEngine ==
    /\ LoopFree
    /\ IF engine # 0
       THEN /\ quits' = [quits EXCEPT ![engine] = @ + 1]
            /\ engine' = 0
       ELSE UNCHANGED <<engine, quits>>
    /\ UNCHANGED <<an_pc, an_fen, an_engine, an_result, asked, deref_none>>
    /\ UNCHANGED <<mapVars, orientVars, fenVars, quadVars, pipeVars, dbgVars, srvVars>>

\* analyze_position, lines 180-201: the availability check and the FEN checks
AnalyzeCheck(h) ==
    /\ an_pc[h] = "new"
    /\ CanRun(h)
    /\ an_engine' = [an_engine EXCEPT ![h] = engine]
    /\ IF AnalyzeChecks(engine, an_fen[h]).code # 0
       THEN /\ an_result' = [an_result EXCEPT ![h] = AnalyzeChecks(engine, an_fen[h])]
            /\ an_pc' = [an_pc EXCEPT ![h] = "done"]
       ELSE /\ an_pc' = [an_pc EXCEPT ![h] = "validated"]
            /\ UNCHANGED an_result
    /\ UNCHANGED <<engine, quits, an_fen, asked, deref_none>>
    /\ UNCHANGED <<mapVars, orientVars, fenVars, quadVars, pipeVars, dbgVars, srvVars>>

\* analyze_position, lines 203-207 up to the await: engine.analyse is looked
\* up on the global and handed to a worker thread
AnalyzeCall(h) ==
    /\ an_pc[h] = "validated"
    /\ CanRun(h)
    /\ IF engine = 0
       THEN /\ deref_none' = TRUE
            /\ an_result' = [an_result EXCEPT ![h] = Answer(500, "AttributeError")]
            /\ an_pc' = [an_pc EXCEPT ![h] = "done"]
            /\ UNCHANGED asked
       ELSE /\ asked' = asked \cup {[handler |-> h, engine |-> engine,
                                     checked |-> an_engine[h], fen |-> an_fen[h]]}
            /\ an_pc' = [an_pc EXCEPT ![h] = "awaiting"]
            /\ UNCHANGED <<an_result, deref_none>>
    /\ UNCHANGED <<engine, quits, an_fen, an_engine>>
    /\ UNCHANGED <<mapVars, orientVars, fenVars, quadVars, pipeVars, dbgVars, srvVars>>

\* analyze_position, lines 207-256: the thread finished and the handler runs
\* to its return
AnalyzeResume(h) ==
    /\ an_pc[h] = "awaiting"
    /\ CanRun(h)
    /\ \E out \in ThreadOutcomes :
        IF out = "terminated"
        THEN /\ an_result' = [an_result EXCEPT ![h] = Answer(500, "engine terminated")]
             /\ UNCHANGED deref_none
        ELSE IF out = "engine_error"
        THEN /\ an_result' = [an_result EXCEPT ![h] = Answer(500, "engine error")]
             /\ UNCHANGED deref_none
        ELSE IF out = "no_lines"
        THEN /\ an_result' = [an_result EXCEPT ![h] = Answer(500, "no analysis")]
             /\ UNCHANGED deref_none
        ELSE IF EngineName(engine).deref
        THEN /\ an_result' = [an_result EXCEPT ![h] = Answer(500, "AttributeError")]
             /\ deref_none' = TRUE
        ELSE /\ an_result' = [an_result EXCEPT ![h] =
                    [code |-> 200, detail |-> "success", engine |-> EngineName(engine).name]]
             /\ UNCHANGED deref_none
    /\ an_pc' = [an_pc EXCEPT ![h] = "done"]
    /\ UNCHANGED <<engine, quits, an_fen, an_engine, asked>>
    /\ UNCHANGED <<mapVars, orientVars, fenVars, quadVars, pipeVars, dbgVars, srvVars>>

EngineNext ==
    \/ InitEngine
    \/ InitEngineFailed
    \/ ShutdownEngine
    \/ \E h \in Handlers : AnalyzeCheck(h) \/ AnalyzeCall(h) \/ AnalyzeResume(h)

SpecEngine == EngineInit /\ [][EngineNext]_vars

\* The response resp is one that the upload img gives when it is the only
\* request
AloneGives(img, resp) ==
    \E alone \in RunFullPipeline(img) :
        /\ alone.code = resp.code
        /\ alone.status = resp.status
        /\ alone.code = 200 => alone.fen = resp.fen

PipelineIsComposition ==
    pipe_pc = "done" =>
        AloneGives([upload |-> upload, scene |-> scene, corners |-> corners, pieces |-> items],
                   response)

\* The engine.analyse calls made on behalf of handler h
CallsOf(h) == {c \in asked : c.handler = h}

\* C29: analyze_position calls engine.analyse only when the engine is
\* available and the FEN parses, has both kings and is a valid board; an
\* unavailable engine is answered with 503 whatever the FEN, and a bad FEN
\* with 400 once the engine was found available; no rejected request reaches
\* the engine.
C29_AnalyseOnlyWhenChecked ==
    /\ \A c \in asked : c.checked # 0 /\ c.fen = "valid"
    /\ \A h \in Handlers :
        /\ an_pc[h] = "done" /\ an_engine[h] = 0 =>
              an_result[h].code = 503 /\ CallsOf(h) = {}
        /\ an_pc[h] = "done" /\ an_engine[h] # 0 /\ an_fen[h] # "valid" =>
              an_result[h].code = 400 /\ CallsOf(h) = {}
        /\ an_pc[h] = "done" /\ an_engine[h] # 0 /\ an_fen[h] = "valid" =>
              an_result[h].code \in {200, 500} /\ CallsOf(h) # {}

\* C29 witness: with no engine a request with an unparsable FEN was answered
\* 503, and with an engine a request whose FEN lacks the black king was
\* answered 400 while nothing was sent to the engine.
C29_Witness ==
    /\ an_pc[1] = "done"
    /\ an_fen[1] = "unparsable"
    /\ an_engine[1] = 0
    /\ an_result[1].code = 503
    /\ an_pc[2] = "done"
    /\ an_fen[2] = "no_black_king"
    /\ an_engine[2] = 1
    /\ an_result[2] = Answer(400, "missing black king")
    /\ asked = {}

\* C30: under every interleaving of startup, shutdown and analysis requests
\* no handler reads an attribute of engine while it is None: the engine whose
\* analyse method is called is the one the availability check saw, a
\* successful analysis that finds engine None on return reports "unknown",
\* and shutdown_engine quits an engine at most once and never leaves a quit
\* engine as the global.
C30_EngineNeverDereferencedWhenNone ==
    /\ ~deref_none
    /\ \A c \in asked : c.engine # 0 /\ c.engine = c.checked
    /\ \A h \in Handlers :
          an_pc[h] = "done" => an_result[h].detail # "AttributeError"
    /\ \A k \in 1..Len(quits) : quits[k] <= 1 /\ (quits[k] = 1 => engine # k)

\* C30 witness: the engine was shut down while handler 1 awaited its
\* analysis; the analysis still returned lines and the response names the
\* engine "unknown"; the engine was quit once.
C30_Witness ==
    /\ an_pc[1] = "done"
    /\ an_engine[1] = 1
    /\ an_result[1].code = 200
    /\ an_result[1].engine = "unknown"
    /\ engine = 0
    /\ quits = <<1>>
    /\ ~deref_none

====
